---- MODULE Spec2Model ----
(***************************************************************************)
(* Verification model of the Goethe B1 Wortliste extraction pipeline:      *)
(*   - BreakDetector.detectBreaks / isRowEmpty (break-detector.js)         *)
(*   - DataProcessor.processRawData (data-processor.js)                    *)
(*   - GoetheBrListProcessor.runWithConcurrency / processAll (index.js)    *)
(*   - PageProcessor.processPage / processColumn (page-processor.js)       *)
(* Strings are sequences of text chunks, JS arrays are sequences, a JS     *)
(* index i is the TLA+ index i + 1.                                        *)
(***************************************************************************)
EXTENDS Integers, Sequences, FiniteSets, TLC

VARIABLES
    \* ---- BreakDetector.detectBreaks ----
    pixelBuffer,   \* raw pixel bytes, row-major
    width,         \* info.width
    height,        \* info.height
    channels,      \* info.channels
    threshold,     \* this.threshold
    overrides,     \* BREAK_OVERRIDES[prefix] || new Set()
    y,             \* loop variable of detectBreaks
    state,         \* 'trail' | 'look' | 'found' | 'overridden'
    start,         \* first row of the candidate gap (null at first)
    rectStart,     \* first row of the block being built
    ranges,        \* ranges pushed so far
    pc,            \* position of the detectBreaks call
    \* ---- BreakDetector.isRowEmpty ----
    rowIdx,        \* the row last passed to isRowEmpty (-1: none yet)
    rowIsEmpty,    \* what isRowEmpty returned for it
    \* ---- DataProcessor.processRawData ----
    buf,           \* the buffer array, updated in place by each call
    inputData,     \* the records passed to the last call
    calls,         \* number of processRawData calls made on buf
    \* ---- DataProcessor.generateCSV ----
    csv,           \* the string generateCSV returned
    gitVersion,    \* what getGitVersion() resolved to
    \* ---- GoetheBrListProcessor.processAll / runWithConcurrency ----
    mainPc,        \* position of processAll
    cpuCount,      \* the concurrency limit
    nextIdx,       \* index of the next item of the for loop (from 1)
    executing,     \* the executing array (pages whose promise e is in it)
    awaited,       \* pages whose e the pending race / all was called with
    allRawData,    \* the aggregated entry list
    aggIdx,        \* index of the next page of the aggregation loop
    errorLog,      \* pages reported by console.error, in order
    \* ---- one page job: iteratorFn(pageNum) -> PageProcessor.processPage ----
    jobPc,         \* position of each page job
    jobCol,        \* the column processColumn is working on
    jobRanges,     \* the local `ranges` of processColumn
    jobResult,     \* how the job's processPage call ended
    jobError,      \* the operation whose error made processPage reject
    outOfOrder,    \* some job settled before a job of a lower page
    \* ---- the output directory ----
    rangesFile,    \* NNN-c.txt per (page, column)
    dataFile,      \* NNN-c.json per (page, column)
    \* ---- what the run did, per (page, column) ----
    tracing,       \* the run is observed: the variables below are kept
    cacheState,    \* what the output directory held for each page at the start
    detectCalls,   \* keys detectBreaks was called for
    extractCalls,  \* keys extractFromRanges was called for
    returned,      \* what processColumn returned for the key, if it did
    written,       \* the files the run wrote, as <<extension, key>>
    \* ---- WorkerPool ----
    size,          \* this._size
    workers,       \* this._workers
    idleWorkers,   \* this._idleWorkers
    queue,         \* this._queue, the tasks named by their job
    isClosing,     \* this._isClosing
    thread,        \* per Worker object: the state of its thread
    currentTask,   \* per Worker object: worker.currentTask
    posted,        \* per Worker object: a posted message is not answered yet
    nextWorker,    \* number of Worker objects created so far, plus one
    timer,         \* per job: task.timer while the timeout is pending
    promise,       \* per job: the state of the promise exec returned
    nextJob,       \* number of exec calls made so far, plus one
    dispatched,    \* the jobs handed to a worker, in dispatch order
    replacing,     \* _replaceWorker calls waiting at `await worker.terminate()`
    destroyPc,     \* position of the destroy() call
    faults,        \* number of worker errors and exits so far
    onlineResolved, \* workers of _spawnWorkers whose onlinePromises entry is resolved
    \* ---- the round-robin WorkerPool of runtime/worker-pool.js ----
    nextIndex,     \* this._nextIndex
    msgListeners,  \* per worker: the jobs whose once('message') listener is set
    errListeners,  \* per worker: the jobs whose once('error') listener is set
    inbox,         \* per worker: the jobs whose payload is posted, not answered
    abortHasClear, \* the runtime's AbortSignal objects have a clear() method
    crashed,       \* an exception left an event listener of the main thread
    \* ---- PDFConverter.convertPDFToPNG ----
    convPc,        \* position of the convertPDFToPNG call
    pdfExists,     \* fileExists(this.pdfFile)
    pngFile,       \* per page: the page's PNG is in the output directory
    pngBefore,     \* pngFile at the time of the call
    pageCount,     \* doc.countPages()
    todo,          \* the pages that still need rendering
    concurrency,   \* Math.max(1, cpus().length)
    todoIdx,       \* index into todo of the for loop in _runWithConcurrency
    convExecuting, \* the array `executing`, the promises named by their page
    convAwaited,   \* promises that Promise.race / Promise.all waits on
    renderPc,      \* per page of todo: position of its iteratorFn call
    rendered       \* the pages whose pixmap was rendered by this call

detVars == <<pixelBuffer, width, height, channels, threshold, overrides,
             y, state, start, rectStart, ranges, pc>>
rowVars == <<rowIdx, rowIsEmpty>>
aggVars == <<buf, inputData, calls, csv, gitVersion>>
mainVars == <<mainPc, cpuCount, nextIdx, executing, awaited, allRawData, aggIdx, errorLog>>
jobVars == <<jobPc, jobCol, jobRanges, jobResult, jobError, outOfOrder>>
fileVars == <<rangesFile, dataFile>>
traceVars == <<tracing, cacheState, detectCalls, extractCalls, returned, written>>
pipeVars == <<mainVars, jobVars, fileVars, traceVars>>
rrVars == <<nextIndex, msgListeners, errListeners, inbox, abortHasClear, crashed>>
poolVars == <<size, workers, idleWorkers, queue, isClosing, thread, currentTask,
              posted, nextWorker, timer, promise, nextJob, dispatched,
              replacing, destroyPc, faults, onlineResolved, rrVars>>
convVars == <<convPc, pdfExists, pngFile, pngBefore, pageCount, todo,
              concurrency, todoIdx, convExecuting, convAwaited, renderPc,
              rendered>>

\* ------------------------------------------------------------------ bounds
MaxHeight == 5
MaxWidth == 2
MaxThreshold == 2

\* ------------------------------------------------------ program constants
\* channel counts sharp produces for the page PNGs: RGB or RGBA
Channels == {3, 4}
\* the cutoff one too high
whiteThresholdOff == 240 + 1
whiteThreshold == 240
\* JS null / undefined
Null == -1
Undefined == -2

\* ------------------------------------------------------------ JS helpers
\* ToNumber(null) is 0
ToNumber(v) == IF v = Null THEN 0 ELSE v
\* buffer[i]: undefined beyond the end
At(buffer, i) == IF i >= 0 /\ i < Len(buffer) THEN buffer[i + 1] ELSE Undefined
\* v < t in JS: false when v is undefined (NaN)
JsLess(v, t) == v # Undefined /\ v < t

\* ------------------------------------------------- BreakDetector.isRowEmpty
RECURSIVE RowScan(_, _, _, _, _)
RowScan(buffer, rowStartOffset, x, w, ch) ==
    IF x >= w THEN TRUE
    ELSE LET pixelOffset == rowStartOffset + x * ch
             r == At(buffer, pixelOffset)
             g == At(buffer, pixelOffset + 1)
             b == At(buffer, pixelOffset + 2)
         IN  IF JsLess(r, whiteThreshold) \/ JsLess(g, whiteThreshold)
                    \/ JsLess(b, whiteThreshold)
             THEN FALSE
             ELSE RowScan(buffer, rowStartOffset, x + 1, w, ch)

isRowEmpty(buffer, row, w, ch) == RowScan(buffer, row * w * ch, 0, w, ch)

\* ----------------------------------------------- BreakDetector.detectBreaks
\* the machine: [state, start, rectStart, ranges]
InitMachine == [state |-> "trail", start |-> Null, rectStart |-> 0, ranges |-> <<>>]

\* the override check skipped while the machine is in TRAIL
ApplyOverrideUnlessTrail(m, yy, ovr) ==
    IF yy \in ovr /\ m.state # "trail"
    THEN [m EXCEPT !.state = "overridden", !.start = 0] ELSE m

\* lines 45-48: the override check, before the switch
ApplyOverride(m, yy, ovr) ==
    IF yy \in ovr THEN [m EXCEPT !.state = "overridden", !.start = 0] ELSE m

\* the closing condition without the override clause
ShouldCloseNoOverride(m, yy, thr) ==
    yy > ToNumber(m.start) + thr

\* the closing condition with >= for >
ShouldCloseGE(m, yy, thr) ==
    yy >= ToNumber(m.start) + thr \/ m.state = "overridden"

\* line 70: the closing condition
ShouldClose(m, yy, thr) ==
    yy > ToNumber(m.start) + thr \/ m.state = "overridden"

\* the switch with a closure that leaves rectStart where it was
TransitionKeepsRectStart(m, yy, empty, thr) ==
    CASE m.state = "trail" ->
            IF ~empty THEN [m EXCEPT !.state = "look"] ELSE m
      [] m.state = "look" ->
            IF empty THEN [m EXCEPT !.state = "found", !.start = yy] ELSE m
      [] m.state \in {"found", "overridden"} ->
            IF empty
            THEN IF ShouldClose(m, yy, thr)
                 THEN [m EXCEPT !.ranges = Append(m.ranges, <<m.rectStart, yy>>),
                                !.state = "trail"]
                 ELSE m
            ELSE [m EXCEPT !.state = "look"]

\* the switch with a TRAIL that ends at any row
TransitionLeavesTrailAtOnce(m, yy, empty, thr) ==
    CASE m.state = "trail" -> [m EXCEPT !.state = "look"]
      [] m.state = "look" ->
            IF empty THEN [m EXCEPT !.state = "found", !.start = yy] ELSE m
      [] m.state \in {"found", "overridden"} ->
            IF empty
            THEN IF ShouldClose(m, yy, thr)
                 THEN [m EXCEPT !.ranges = Append(m.ranges, <<m.rectStart, yy>>),
                                !.rectStart = yy,
                                !.state = "trail"]
                 ELSE m
            ELSE [m EXCEPT !.state = "look"]

\* lines 53-79: the switch
Transition(m, yy, empty, thr) ==
    CASE m.state = "trail" ->
            IF ~empty THEN [m EXCEPT !.state = "look"] ELSE m
      [] m.state = "look" ->
            IF empty THEN [m EXCEPT !.state = "found", !.start = yy] ELSE m
      [] m.state \in {"found", "overridden"} ->
            IF empty
            THEN IF ShouldClose(m, yy, thr)
                 THEN [m EXCEPT !.ranges = Append(m.ranges, <<m.rectStart, yy>>),
                                !.rectStart = yy,
                                !.state = "trail"]
                 ELSE m
            ELSE [m EXCEPT !.state = "look"]

\* one iteration of the for loop, lines 43-80
RowStep(m, yy, buffer, w, ch, ovr, thr) ==
    Transition(ApplyOverride(m, yy, ovr), yy, isRowEmpty(buffer, yy, w, ch), thr)

\* the final range pushed whatever the state
FinalFlushAlways(m, yy) ==
    Append(m.ranges, <<m.rectStart, yy>>)

\* the final range pushed only from a candidate gap
FinalFlushFoundOnly(m, yy) ==
    IF m.state = "found" THEN Append(m.ranges, <<m.rectStart, yy>>) ELSE m.ranges

\* lines 82-87: the final range
FinalFlush(m, yy) ==
    IF m.state # "trail" THEN Append(m.ranges, <<m.rectStart, yy>>) ELSE m.ranges

RECURSIVE DetectLoop(_, _, _, _, _, _, _, _)
DetectLoop(m, yy, buffer, w, h, ch, ovr, thr) ==
    IF yy < h
    THEN DetectLoop(RowStep(m, yy, buffer, w, ch, ovr, thr), yy + 1,
                    buffer, w, h, ch, ovr, thr)
    ELSE FinalFlush(m, yy)

\* the whole call, as a function of its inputs
detectBreaks(buffer, w, h, ch, ovr, thr) ==
    DetectLoop(InitMachine, 0, buffer, w, h, ch, ovr, thr)

\* --------------------------------------------- DataProcessor.processRawData
\* a string is a sequence of text chunks; '' is the empty sequence
EmptyString == <<>>
NewLine == <<"\n">>

\* the merge that does not ask whether the buffer is empty
MergeItemAnyBuffer(item, b) ==
    IF item.definition = EmptyString
    THEN [i \in 1..Len(b) |->
             IF i = Len(b)
             THEN [b[i] EXCEPT !.example = @ \o NewLine \o item.example]
             ELSE b[i]]
    ELSE Append(b, [definition |-> item.definition, example |-> item.example])

\* the merge that asks for a buffer of more than one entry
MergeItemNeedsTwoEntries(item, b) ==
    IF item.definition = EmptyString /\ Len(b) > 1
    THEN [b EXCEPT ![Len(b)].example = @ \o NewLine \o item.example]
    ELSE Append(b, [definition |-> item.definition, example |-> item.example])

\* lines 20-33: the body of the for loop
MergeItem(item, b) ==
    IF item.definition = EmptyString /\ Len(b) > 0
    THEN [b EXCEPT ![Len(b)].example = @ \o NewLine \o item.example]
    ELSE Append(b, [definition |-> item.definition, example |-> item.example])

RECURSIVE processRawData(_, _)
processRawData(input, b) ==
    IF input = <<>> THEN b
    ELSE processRawData(Tail(input), MergeItem(Head(input), b))

\* --------------------------------------------------------- pixel buffers
white == 255
black == 0
\* a row of w pixels of ch channels, every byte v
RECURSIVE Repeat(_, _)
Repeat(v, n) == IF n <= 0 THEN <<>> ELSE <<v>> \o Repeat(v, n - 1)
RECURSIVE BufferOfRows(_, _, _)
BufferOfRows(rows, w, ch) ==
    IF rows = <<>> THEN <<>>
    ELSE Repeat(Head(rows), w * ch) \o BufferOfRows(Tail(rows), w, ch)

Machine == [state |-> state, start |-> start, rectStart |-> rectStart, ranges |-> ranges]

\* =================================================== Spec: detectBreaks
IdleRow == rowIdx = -1 /\ rowIsEmpty = FALSE
IdleAgg ==
    /\ buf = <<>> /\ inputData = <<>> /\ calls = 0
    /\ csv = <<>> /\ gitVersion = "none"
IdlePipe ==
    /\ mainPc = "idle" /\ cpuCount = 1 /\ nextIdx = 1
    /\ executing = <<>> /\ awaited = {}
    /\ allRawData = <<>> /\ aggIdx = 1 /\ errorLog = <<>>
    /\ jobPc = <<>> /\ jobCol = <<>> /\ jobRanges = <<>> /\ jobResult = <<>>
    /\ jobError = <<>>
    /\ outOfOrder = FALSE
    /\ rangesFile = <<>> /\ dataFile = <<>>
    /\ tracing = FALSE
    /\ cacheState = <<>> /\ detectCalls = {} /\ extractCalls = {}
    /\ returned = <<>> /\ written = {}

\* no WorkerPool has been constructed
\* no convertPDFToPNG call is under way
IdleConvert ==
    /\ convPc = "idle"
    /\ pdfExists = FALSE
    /\ pngFile = <<>> /\ pngBefore = <<>>
    /\ pageCount = 0
    /\ todo = <<>>
    /\ concurrency = 1
    /\ todoIdx = 1
    /\ convExecuting = <<>>
    /\ convAwaited = {}
    /\ renderPc = <<>>
    /\ rendered = {}

IdleRoundRobin ==
    /\ nextIndex = 0
    /\ msgListeners = <<>> /\ errListeners = <<>> /\ inbox = <<>>
    /\ abortHasClear = FALSE
    /\ crashed = FALSE

IdlePool ==
    /\ size = 0 /\ workers = <<>> /\ idleWorkers = <<>> /\ queue = <<>>
    /\ isClosing = FALSE
    /\ thread = <<>> /\ currentTask = <<>> /\ posted = <<>>
    /\ nextWorker = 1
    /\ timer = <<>> /\ promise = <<>>
    /\ nextJob = 1 /\ dispatched = <<>>
    /\ replacing = 0 /\ destroyPc = "none" /\ faults = 0
    /\ onlineResolved = {}
    /\ IdleRoundRobin

InitDetect ==
    /\ height \in 0..MaxHeight
    /\ width \in 1..MaxWidth
    /\ channels \in Channels
    /\ threshold \in 0..MaxThreshold
    /\ overrides \in SUBSET (0..(height - 1))
    /\ \E rows \in [1..height -> {white, black}] :
          pixelBuffer = BufferOfRows(rows, width, channels)
    /\ y = 0
    /\ state = InitMachine.state
    /\ start = InitMachine.start
    /\ rectStart = InitMachine.rectStart
    /\ ranges = InitMachine.ranges
    /\ pc = "loop"
    /\ IdleRow
    /\ IdleAgg
    /\ IdlePipe
    /\ IdlePool
    /\ IdleConvert

\* one iteration of the for loop
DetectRow ==
    /\ pc = "loop"
    /\ y < height
    /\ LET m == RowStep(Machine, y, pixelBuffer, width, channels, overrides, threshold)
       IN  /\ state' = m.state
           /\ start' = m.start
           /\ rectStart' = m.rectStart
           /\ ranges' = m.ranges
    /\ y' = y + 1
    /\ rowIdx' = y
    /\ rowIsEmpty' = isRowEmpty(pixelBuffer, y, width, channels)
    /\ UNCHANGED <<pixelBuffer, width, height, channels, threshold, overrides, pc>>
    /\ UNCHANGED aggVars
    /\ UNCHANGED pipeVars
    /\ UNCHANGED <<poolVars, convVars>>

\* the loop ends, the final range is pushed, the call returns
DetectReturn ==
    /\ pc = "loop"
    /\ y >= height
    /\ ranges' = FinalFlush(Machine, y)
    /\ pc' = "done"
    /\ UNCHANGED <<pixelBuffer, width, height, channels, threshold, overrides,
                   y, state, start, rectStart>>
    /\ UNCHANGED rowVars
    /\ UNCHANGED aggVars
    /\ UNCHANGED pipeVars
    /\ UNCHANGED <<poolVars, convVars>>

vars == <<detVars, rowVars, aggVars, pipeVars, poolVars, convVars>>

NextDetect == DetectRow \/ DetectReturn

Spec == InitDetect /\ [][NextDetect]_vars

\* =================================================== Spec: isRowEmpty
\* a white buffer of one or two rows in which at most MaxDark bytes, of any
\* channel of any pixel, are set to a value at or just below the cutoff
RowCounts == {1, 2}
MaxDark == 2
DarkBytes == {239, 240, 255}

InitRow ==
    /\ height \in RowCounts
    /\ width \in 1..MaxWidth
    /\ channels \in Channels
    /\ \E pos \in [1..MaxDark -> 1..(height * width * channels)] :
       \E val \in [1..MaxDark -> DarkBytes] :
          pixelBuffer = [i \in 1..(height * width * channels) |->
                            IF \E j \in 1..MaxDark : pos[j] = i
                            THEN val[CHOOSE j \in 1..MaxDark : pos[j] = i]
                            ELSE white]
    /\ threshold = 0
    /\ overrides = {}
    /\ y = 0
    /\ state = InitMachine.state
    /\ start = InitMachine.start
    /\ rectStart = InitMachine.rectStart
    /\ ranges = InitMachine.ranges
    /\ pc = "rows"
    /\ IdleRow
    /\ IdleAgg
    /\ IdlePipe
    /\ IdlePool
    /\ IdleConvert

\* a call isRowEmpty(pixelBuffer, row, width, channels)
CheckRow ==
    /\ pc = "rows"
    /\ \E row \in 0..(height - 1) :
          /\ rowIdx' = row
          /\ rowIsEmpty' = isRowEmpty(pixelBuffer, row, width, channels)
    /\ UNCHANGED detVars
    /\ UNCHANGED aggVars
    /\ UNCHANGED pipeVars
    /\ UNCHANGED <<poolVars, convVars>>

NextRow == CheckRow

SpecRow == InitRow /\ [][NextRow]_vars

\* ======================================================== claims C1 - C7
EmptyRow(r) == isRowEmpty(pixelBuffer, r, width, channels)
InLoop == pc = "loop" /\ y < height
AtReturn == pc = "loop" /\ y >= height
HasEndAt(sq, r) == \E i \in DOMAIN sq : sq[i][2] = r

\* C1: when detectBreaks returns, every range has start < end and starts at
\* or after the end of the range before it.
C1_RangesIncreasing ==
    pc = "done" =>
        /\ \A i \in DOMAIN ranges : ranges[i][1] < ranges[i][2]
        /\ \A i \in DOMAIN ranges : i > 1 => ranges[i][1] >= ranges[i - 1][2]

IsTestBuffer ==
    /\ pixelBuffer = BufferOfRows(<<white, black, white>>, 2, 3)
    /\ width = 2 /\ height = 3 /\ channels = 3
    /\ threshold = 0 /\ overrides = {}

C4_ContentCovered ==
    pc = "done" =>
        \A r \in 0..(height - 1) :
            ~EmptyRow(r) => \E i \in DOMAIN ranges : ranges[i][1] <= r /\ r < ranges[i][2]

\* content rows in two different ranges, one closed by an override
C4_Witness ==
    /\ pc = "done" /\ Len(ranges) >= 2 /\ overrides # {}
    /\ \E r1, r2 \in 0..(height - 1) :
          /\ ~EmptyRow(r1) /\ ~EmptyRow(r2)
          /\ r1 < ranges[1][2] /\ r2 >= ranges[2][1]

\* C5: a row outside the OverrideSet met in FOUND: non-empty -> LOOK, nothing
\* emitted; empty -> [rectStart, y) emitted, rectStart = y, TRAIL when
\* y > start + threshold, else nothing changes.  With no overrides a closure
\* at y has rows y-threshold-1 .. y all empty.
C5_FoundTransition ==
    [][InLoop =>
          /\ (y \notin overrides /\ state = "found") =>
                IF ~EmptyRow(y)
                THEN state' = "look" /\ UNCHANGED <<ranges, rectStart, start>>
                ELSE IF y > start + threshold
                     THEN /\ ranges' = Append(ranges, <<rectStart, y>>)
                          /\ rectStart' = y
                          /\ state' = "trail"
                     ELSE UNCHANGED <<state, start, rectStart, ranges>>
          /\ (overrides = {} /\ ranges' # ranges) =>
                /\ y - threshold - 1 >= 0
                /\ \A r \in (y - threshold - 1)..y : EmptyRow(r)]_vars

\* a gap longer than a positive threshold closed a block, no override involved
C5_Witness ==
    /\ pc = "done" /\ overrides = {} /\ threshold >= 1 /\ Len(ranges) >= 2

\* C6 as stated: with no overrides, a run of at least `threshold` empty rows
\* between two non-empty rows holds a range boundary.
C6_GapOfThresholdRowsBreaks ==
    (pc = "done" /\ overrides = {}) =>
        \A a, b \in 1..(height - 2) :
            ( /\ a <= b
              /\ b - a + 1 >= threshold
              /\ \A r \in a..b : EmptyRow(r)
              /\ ~EmptyRow(a - 1) /\ ~EmptyRow(b + 1) )
            => \E e \in a..(b + 1) : HasEndAt(ranges, e)

\* C7: isRowEmpty is true iff each of the first three channel bytes of every
\* pixel of the row is >= 240; later channels do not matter.
C7_RowEmptyIffFirstThreeWhite ==
    rowIdx # -1 =>
        (rowIsEmpty <=>
            \A x \in 0..(width - 1) : \A c \in 0..2 :
                pixelBuffer[rowIdx * width * channels + x * channels + c + 1] >= 240)

\* the second row of an RGBA buffer is empty although an alpha byte is dark
C7_Witness ==
    /\ rowIdx = 1 /\ channels = 4 /\ rowIsEmpty
    /\ \E x \in 0..(width - 1) :
          pixelBuffer[rowIdx * width * channels + x * channels + 4] < 240

\* ================================================ Spec: processRawData
MaxInput == 3
MaxCalls == 2

Str(chunk) == <<chunk>>
\* the records of the unit test, as raw records
TestRecords ==
    { [definition |-> Str("test"), example |-> Str("example 1")],
      [definition |-> EmptyString, example |-> Str("example 2")],
      [definition |-> Str("test2"), example |-> Str("example 3")] }

RecordLists == UNION { [1..n -> TestRecords] : n \in 0..MaxInput }

InitAgg ==
    /\ pixelBuffer = <<>>
    /\ width = 1 /\ height = 0 /\ channels = 3
    /\ threshold = 0
    /\ overrides = {}
    /\ y = 0
    /\ state = InitMachine.state
    /\ start = InitMachine.start
    /\ rectStart = InitMachine.rectStart
    /\ ranges = InitMachine.ranges
    /\ pc = "agg"
    /\ IdleRow
    /\ IdleAgg
    /\ IdlePipe
    /\ IdlePool
    /\ IdleConvert

\* a call processRawData(input, buf); buf is updated in place and returned
CallProcessRawData ==
    /\ pc = "agg"
    /\ calls < MaxCalls
    /\ \E input \in RecordLists :
          /\ inputData' = input
          /\ buf' = processRawData(input, buf)
    /\ calls' = calls + 1
    /\ UNCHANGED <<csv, gitVersion>>
    /\ UNCHANGED detVars
    /\ UNCHANGED rowVars
    /\ UNCHANGED pipeVars
    /\ UNCHANGED <<poolVars, convVars>>

NextAgg == CallProcessRawData

SpecAgg == InitAgg /\ [][NextAgg]_vars

\* ================================================================ claim C8
TestInput ==
    << [definition |-> Str("test"), example |-> Str("example 1")],
       [definition |-> EmptyString, example |-> Str("example 2")],
       [definition |-> Str("test2"), example |-> Str("example 3")] >>

TestOutput ==
    << [definition |-> Str("test"),
        example |-> <<"example 1", "\n", "example 2">>],
       [definition |-> Str("test2"), example |-> Str("example 3")] >>

\* the buffer after the first k records of input
AfterRecords(input, b, k) == processRawData(SubSeq(input, 1, k), b)

\* the k-th record was handled as the claim says
HandledAsStated(input, b, k) ==
    LET before == AfterRecords(input, b, k - 1)
        after == AfterRecords(input, b, k)
        item == input[k]
    IN  IF item.definition = <<>> /\ before # <<>>
        THEN /\ Len(after) = Len(before)
             /\ \A i \in 1..(Len(before) - 1) : after[i] = before[i]
             /\ after[Len(before)].definition = before[Len(before)].definition
             /\ after[Len(before)].example =
                    before[Len(before)].example \o <<"\n">> \o item.example
        ELSE /\ Len(after) = Len(before) + 1
             /\ SubSeq(after, 1, Len(before)) = before
             /\ after[Len(after)] =
                    [definition |-> item.definition, example |-> item.example]

\* C8: processRawData handles the records in order: an empty-definition
\* record met while the buffer is non-empty adds no entry and appends
\* "\n" + example to the last entry, every other record appends one entry;
\* the test input on the empty buffer gives the two test entries.
C8_MergeRule ==
    [][pc = "agg" =>
          /\ \A k \in 1..Len(inputData') : HandledAsStated(inputData', buf, k)
          /\ buf' = AfterRecords(inputData', buf, Len(inputData'))
          /\ (buf = <<>> /\ inputData' = TestInput) => buf' = TestOutput]_vars

\* a continuation was merged into an entry of an earlier call, and the test
\* case was run
C8_Witness ==
    /\ pc = "agg" /\ calls = 2
    /\ inputData # <<>> /\ inputData[1].definition = EmptyString
    /\ Len(buf) = 2 /\ buf[1] = TestOutput[1]

\* ===================================================== Spec: processAll
NumPages == 2
MaxCpus == 2
\* this.threshold of the pipeline's detector, at the scale of ColumnRows
PipeThreshold == 1

PAGE_START == 16
PAGE_END == PAGE_START + NumPages - 1
pageNumbers == [i \in 1..NumPages |-> PAGE_START + i - 1]
Pages == PAGE_START..PAGE_END
Columns == {"l", "r"}
Keys == Pages \X Columns

\* ---- files of the output directory
NoFile == [exists |-> FALSE, text |-> <<>>]
File(t) == [exists |-> TRUE, text |-> t]
fileExists(f) == f.exists

\* JSON.stringify / JSON.parse of an array of {index, definition, example,
\* imagePath} objects: every field is a string or an integer and survives
JsonStringify(data) == [ok |-> TRUE, json |-> data]
\* a file content that is not JSON text: JSON.parse throws a SyntaxError
Malformed == [ok |-> FALSE, json |-> <<>>]
JsonParseThrowsNever(text) == FALSE
JsonParseThrows(text) == ~text.ok
JsonParse(text) == text.json

\* ---- the text of a ranges file: a sequence of numerals, ' ' and '\n'
\* Array.prototype.join
RECURSIVE Join(_, _)
Join(pieces, sep) ==
    IF pieces = <<>> THEN <<>>
    ELSE IF Len(pieces) = 1 THEN Head(pieces)
    ELSE Head(pieces) \o <<sep>> \o Join(Tail(pieces), sep)

\* String.prototype.split: '' splits into the one piece ''
RECURSIVE SplitFrom(_, _, _, _)
SplitFrom(str, sep, piece, pieces) ==
    IF str = <<>> THEN Append(pieces, piece)
    ELSE IF Head(str) = sep
    THEN SplitFrom(Tail(str), sep, <<>>, Append(pieces, piece))
    ELSE SplitFrom(Tail(str), sep, Append(piece, Head(str)), pieces)
Split(str, sep) == SplitFrom(str, sep, <<>>, <<>>)

\* String.prototype.trim
WhiteSpace == {" ", "\n"}
RECURSIVE TrimStart(_)
TrimStart(str) ==
    IF str # <<>> /\ Head(str) \in WhiteSpace THEN TrimStart(Tail(str)) ELSE str
RECURSIVE TrimEnd(_)
TrimEnd(str) ==
    IF str # <<>> /\ str[Len(str)] \in WhiteSpace
    THEN TrimEnd(SubSeq(str, 1, Len(str) - 1)) ELSE str
Trim(str) == TrimEnd(TrimStart(str))

\* Number(str): 0 for '', the value of a numeral, NaN otherwise
NaN == -3
Number(str) ==
    IF str = <<>> THEN 0
    ELSE IF Len(str) = 1 /\ \E n \in 0..MaxHeight : ToString(n) = str[1]
    THEN CHOOSE n \in 0..MaxHeight : ToString(n) = str[1]
    ELSE NaN

\* const [start, end] = ...: a missing element is undefined
Element(arr, i) == IF i \in DOMAIN arr THEN arr[i] ELSE Undefined

\* ranges.map(r => r.join(' ')).join('\n'): one line per range, '' for []
FormatRanges(rs) ==
    Join([i \in DOMAIN rs |->
            Join(<< <<ToString(rs[i][1])>>, <<ToString(rs[i][2])>> >>, " ")],
         "\n")

\* content.trim().split('\n').map(line => line.split(' ').map(Number))
ParseRanges(text) ==
    LET lines == Split(Trim(text), "\n")
    IN  [i \in DOMAIN lines |->
            LET pieces == Split(lines[i], " ")
                numbers == [j \in DOMAIN pieces |-> Number(pieces[j])]
            IN  <<Element(numbers, 1), Element(numbers, 2)>>]

\* ---- collaborators
\* ImageProcessor.getColumnRawPixels: the cropped column, 1 pixel wide, RGB
ColumnRows(page, col) ==
    IF col = "l" THEN <<black, white, white, white, black>>
    ELSE IF page = PAGE_END THEN <<white, white>>
    ELSE <<white, black>>

\* BREAK_OVERRIDES has no entry for the first pages
PageOverrides(page, col) == {}

DetectColumn(page, col, thr) ==
    detectBreaks(BufferOfRows(ColumnRows(page, col), 1, 3), 1,
                 Len(ColumnRows(page, col)), 3, PageOverrides(page, col), thr)

\* TextExtractor.extractFromRanges: one record per range; the text found in
\* a region is a function of the page, the column and the region
extractFromRanges(page, rs, col) ==
    [i \in 1..Len(rs) |->
        [index |-> i - 1,
         definition |-> IF col = "r" /\ i = 1 THEN EmptyString
                        ELSE <<"def", ToString(page), col, ToString(rs[i][1])>>,
         example |-> <<"ex", ToString(page), col, ToString(rs[i][1])>>,
         imagePath |-> <<ToString(page), col, ToString(i - 1)>>]]

\* ---- what an earlier run can have left for one page
\* "corrupt": the left records file is not JSON text, as after a write that
\* was cut short; "noRangesL": the left ranges file is gone, the case for
\* which processColumn loads the ranges only "if they exist"
CacheStates == {"empty", "rangesL", "left", "leftRangesR", "full",
                "corrupt", "noRangesL"}
CachedRanges(page, col, cs, thr) ==
    IF \/ col = "l" /\ cs \notin {"empty", "noRangesL"}
       \/ col = "r" /\ cs \in {"leftRangesR", "full", "noRangesL"}
    THEN File(FormatRanges(DetectColumn(page, col, thr)))
    ELSE NoFile
CachedData(page, col, cs, thr) ==
    IF col = "l" /\ cs = "corrupt"
    THEN File(Malformed)
    ELSE IF \/ col = "l" /\ cs \in {"left", "leftRangesR", "full", "noRangesL"}
            \/ col = "r" /\ cs \in {"full", "noRangesL"}
    THEN File(JsonStringify(extractFromRanges(page, DetectColumn(page, col, thr), col)))
    ELSE NoFile

\* processColumn has not returned for the key
NotReturned == [done |-> FALSE, data |-> <<>>, ranges |-> <<>>]
Returned(data, rs) == [done |-> TRUE, data |-> data, ranges |-> rs]

\* the start of the concurrent phase of processAll over the files that cs
\* describes
StartRun(cs) ==
    /\ pixelBuffer = <<>>
    /\ width = 1 /\ height = 0 /\ channels = 3
    /\ threshold = PipeThreshold
    /\ overrides = {}
    /\ y = 0
    /\ state = InitMachine.state
    /\ start = InitMachine.start
    /\ rectStart = InitMachine.rectStart
    /\ ranges = InitMachine.ranges
    /\ pc = "pipe"
    /\ IdleRow
    /\ IdleAgg
    /\ IdlePool
    /\ IdleConvert
    /\ mainPc = "loop"
    /\ nextIdx = 1
    /\ executing = <<>>
    /\ awaited = {}
    /\ allRawData = <<>>
    /\ aggIdx = 1
    /\ errorLog = <<>>
    /\ jobPc = [p \in Pages |-> "new"]
    /\ jobCol = [p \in Pages |-> "l"]
    /\ jobRanges = [p \in Pages |-> <<>>]
    /\ jobResult = [p \in Pages |-> "none"]
    /\ jobError = [p \in Pages |-> "none"]
    /\ outOfOrder = FALSE
    /\ rangesFile = [k \in Keys |->
                        CachedRanges(k[1], k[2], cs[k[1]], PipeThreshold)]
    /\ dataFile = [k \in Keys |->
                      CachedData(k[1], k[2], cs[k[1]], PipeThreshold)]
    /\ detectCalls = {}
    /\ extractCalls = {}
    /\ returned = [k \in Keys |-> NotReturned]
    /\ written = {}

\* the concurrent run starts from what earlier runs can leave by themselves
InterruptedRuns == CacheStates \ {"noRangesL"}

InitPipe ==
    /\ \E cs \in [Pages -> InterruptedRuns] : StartRun(cs)
    /\ cpuCount \in 1..MaxCpus
    /\ tracing = FALSE
    /\ cacheState = <<>>

\* the same run on a machine with one CPU, observed
InitSerial ==
    /\ \E cs \in [Pages -> CacheStates] : StartRun(cs) /\ cacheState = cs
    /\ cpuCount = 1
    /\ tracing = TRUE

\* what an observed variable becomes
Trace(old, new) == IF tracing THEN new ELSE old

SeqRange(sq) == {sq[i] : i \in DOMAIN sq}
RECURSIVE RemoveFirst(_, _)
RemoveFirst(sq, v) ==
    IF sq = <<>> THEN <<>>
    ELSE IF Head(sq) = v THEN Tail(sq)
    ELSE <<Head(sq)>> \o RemoveFirst(Tail(sq), v)

\* ---- runWithConcurrency
\* the for loop pushes e and never awaits Promise.race
SubmitNeverWaits ==
    /\ mainPc = "loop"
    /\ nextIdx <= NumPages
    /\ LET item == pageNumbers[nextIdx]
           pushed == Append(executing, item)
       IN  /\ jobPc' = [jobPc EXCEPT ![item] = "pending"]
           /\ executing' = pushed
           /\ UNCHANGED <<mainPc, awaited>>
    /\ nextIdx' = nextIdx + 1
    /\ UNCHANGED <<cpuCount, allRawData, aggIdx, errorLog>>
    /\ UNCHANGED <<jobCol, jobRanges, jobResult, jobError, outOfOrder>>
    /\ UNCHANGED <<poolVars, convVars, detVars, rowVars, aggVars, fileVars, traceVars>>

\* one iteration of the for loop: p and e are created and e is pushed; the
\* loop goes on synchronously unless the limit is reached
Submit ==
    /\ mainPc = "loop"
    /\ nextIdx <= NumPages
    /\ LET item == pageNumbers[nextIdx]
           pushed == Append(executing, item)
       IN  /\ jobPc' = [jobPc EXCEPT ![item] = "pending"]
           /\ executing' = pushed
           /\ IF Len(pushed) >= cpuCount
              THEN mainPc' = "race" /\ awaited' = SeqRange(pushed)
              ELSE UNCHANGED <<mainPc, awaited>>
    /\ nextIdx' = nextIdx + 1
    /\ UNCHANGED <<cpuCount, allRawData, aggIdx, errorLog>>
    /\ UNCHANGED <<jobCol, jobRanges, jobResult, jobError, outOfOrder>>
    /\ UNCHANGED <<poolVars, convVars, detVars, rowVars, aggVars, fileVars, traceVars>>

\* await Promise.race(executing) settles with one of the promises awaited
RaceResume ==
    /\ mainPc = "race"
    /\ \E p \in awaited :
          /\ jobPc[p] \in {"removed", "rejected"}
          /\ mainPc' = IF jobPc[p] = "rejected" THEN "rejected" ELSE "loop"
    /\ awaited' = {}
    /\ UNCHANGED <<cpuCount, nextIdx, executing, allRawData, aggIdx, errorLog>>
    /\ UNCHANGED <<poolVars, convVars, detVars, rowVars, aggVars, jobVars, fileVars, traceVars>>

\* the for loop is over: await Promise.all(executing)
LoopEnd ==
    /\ mainPc = "loop"
    /\ nextIdx > NumPages
    /\ mainPc' = "all"
    /\ awaited' = SeqRange(executing)
    /\ UNCHANGED <<cpuCount, nextIdx, executing, allRawData, aggIdx, errorLog>>
    /\ UNCHANGED <<poolVars, convVars, detVars, rowVars, aggVars, jobVars, fileVars, traceVars>>

\* Promise.all(executing) is not awaited: the loop's end goes on at once
AllResumeAtOnce ==
    /\ mainPc = "all"
    /\ mainPc' = "aggregate"
    /\ awaited' = {}
    /\ UNCHANGED <<cpuCount, nextIdx, executing, allRawData, aggIdx, errorLog>>
    /\ UNCHANGED <<poolVars, convVars, detVars, rowVars, aggVars, jobVars, fileVars, traceVars>>

\* await Promise.all(executing) resumes when every promise has settled
AllResume ==
    /\ mainPc = "all"
    /\ LET rejected == \E p \in awaited : jobPc[p] = "rejected"
       IN  /\ rejected \/ \A p \in awaited : jobPc[p] = "removed"
           /\ mainPc' = IF rejected THEN "rejected" ELSE "aggregate"
    /\ awaited' = {}
    /\ UNCHANGED <<cpuCount, nextIdx, executing, allRawData, aggIdx, errorLog>>
    /\ UNCHANGED <<poolVars, convVars, detVars, rowVars, aggVars, jobVars, fileVars, traceVars>>

\* ---- one page job; it runs while processAll is suspended at an await
MainSuspended == mainPc \in {"race", "all"}
JobFrame == UNCHANGED <<detVars, rowVars, aggVars, poolVars, convVars>>
MainFrame == UNCHANGED <<mainPc, cpuCount, nextIdx, awaited, allRawData, aggIdx>>

\* a job settles before a job of a lower page
SettlesEarly(p) == \E q \in Pages : q < p /\ jobPc[q] \notin {"settled", "removed", "rejected"}

\* processPage rejects: the error reaches the try block of iteratorFn
Throw(p, err) ==
    /\ jobPc' = [jobPc EXCEPT ![p] = "thrown"]
    /\ jobResult' = [jobResult EXCEPT ![p] = "failed"]
    /\ jobError' = Trace(jobError, [jobError EXCEPT ![p] = err])

\* Promise.resolve().then(() => iteratorFn(item)): the job starts
JobStart(p) ==
    /\ MainSuspended
    /\ jobPc[p] = "pending"
    /\ jobPc' = [jobPc EXCEPT ![p] = "image"]
    /\ UNCHANGED <<jobCol, jobRanges, jobResult, jobError, outOfOrder, executing, errorLog>>
    /\ MainFrame /\ JobFrame /\ UNCHANGED <<fileVars, traceVars>>

\* processPage: getPageImagePath throws when the page PNG is missing
JobImage(p) ==
    /\ MainSuspended
    /\ jobPc[p] = "image"
    /\ \E pngExists \in BOOLEAN :
          IF pngExists
          THEN jobPc' = [jobPc EXCEPT ![p] = "col"] /\ UNCHANGED <<jobResult, jobError>>
          ELSE Throw(p, "getPageImagePath")
    /\ jobCol' = [jobCol EXCEPT ![p] = "l"]
    /\ UNCHANGED <<jobRanges, outOfOrder, executing, errorLog>>
    /\ MainFrame /\ JobFrame /\ UNCHANGED <<fileVars, traceVars>>

\* the position after processColumn returned for column c
AfterColumn(c) == IF c = "l" THEN "col" ELSE "annot"
NextColumn(c) == IF c = "l" THEN "r" ELSE c

\* "Check if already processed": the records file of the key is there
AlreadyProcessedNever(k) == FALSE
AlreadyProcessed(k) == fileExists(dataFile[k])

\* "Get or detect ranges": the ranges file of the key is there
RangesStoredNever(k) == FALSE
RangesStored(k) == fileExists(rangesFile[k])

\* processColumn keeps the detected ranges in memory and writes no ranges file
JobColumnKeepsRangesInMemory(p) ==
    /\ MainSuspended
    /\ jobPc[p] = "col"
    /\ LET c == jobCol[p]
           k == <<p, c>>
       IN  IF AlreadyProcessed(k)
           THEN \* already processed: the stored records are parsed and
                \* returned, with the stored ranges if there are any
                IF JsonParseThrows(dataFile[k].text)
                THEN /\ Throw(p, "JSON.parse")
                     /\ UNCHANGED <<jobCol, jobRanges, rangesFile>>
                     /\ UNCHANGED <<detectCalls, returned, written>>
                ELSE /\ returned' = Trace(returned, [returned EXCEPT ![k] =
                            Returned(JsonParse(dataFile[k].text),
                                     IF fileExists(rangesFile[k])
                                     THEN ParseRanges(rangesFile[k].text)
                                     ELSE <<>>)])
                     /\ jobPc' = [jobPc EXCEPT ![p] = AfterColumn(c)]
                     /\ jobCol' = [jobCol EXCEPT ![p] = NextColumn(c)]
                     /\ UNCHANGED <<jobRanges, rangesFile, jobResult, jobError>>
                     /\ UNCHANGED <<detectCalls, written>>
           ELSE IF RangesStored(k)
           THEN /\ jobRanges' = [jobRanges EXCEPT ![p] = ParseRanges(rangesFile[k].text)]
                /\ jobPc' = [jobPc EXCEPT ![p] = "extract"]
                /\ UNCHANGED <<jobCol, rangesFile, jobResult, jobError>>
                /\ UNCHANGED <<detectCalls, returned, written>>
           ELSE \E pixelsOk \in BOOLEAN :
                  IF pixelsOk
                  THEN LET rs == DetectColumn(p, c, threshold)
                       IN  /\ detectCalls' = Trace(detectCalls, detectCalls \cup {k})
                           /\ UNCHANGED <<rangesFile, written>>
                           /\ jobRanges' = [jobRanges EXCEPT ![p] = rs]
                           /\ jobPc' = [jobPc EXCEPT ![p] = "extract"]
                           /\ UNCHANGED <<jobCol, jobResult, jobError, returned>>
                  ELSE /\ Throw(p, "getColumnRawPixels")
                       /\ UNCHANGED <<jobCol, jobRanges, rangesFile>>
                       /\ UNCHANGED <<detectCalls, returned, written>>
    /\ UNCHANGED <<outOfOrder, executing, errorLog, dataFile>>
    /\ UNCHANGED <<tracing, cacheState, extractCalls>>
    /\ MainFrame /\ JobFrame

\* processColumn up to the point where the ranges are known
JobColumn(p) ==
    /\ MainSuspended
    /\ jobPc[p] = "col"
    /\ LET c == jobCol[p]
           k == <<p, c>>
       IN  IF AlreadyProcessed(k)
           THEN \* already processed: the stored records are parsed and
                \* returned, with the stored ranges if there are any
                IF JsonParseThrows(dataFile[k].text)
                THEN /\ Throw(p, "JSON.parse")
                     /\ UNCHANGED <<jobCol, jobRanges, rangesFile>>
                     /\ UNCHANGED <<detectCalls, returned, written>>
                ELSE /\ returned' = Trace(returned, [returned EXCEPT ![k] =
                            Returned(JsonParse(dataFile[k].text),
                                     IF fileExists(rangesFile[k])
                                     THEN ParseRanges(rangesFile[k].text)
                                     ELSE <<>>)])
                     /\ jobPc' = [jobPc EXCEPT ![p] = AfterColumn(c)]
                     /\ jobCol' = [jobCol EXCEPT ![p] = NextColumn(c)]
                     /\ UNCHANGED <<jobRanges, rangesFile, jobResult, jobError>>
                     /\ UNCHANGED <<detectCalls, written>>
           ELSE IF RangesStored(k)
           THEN /\ jobRanges' = [jobRanges EXCEPT ![p] = ParseRanges(rangesFile[k].text)]
                /\ jobPc' = [jobPc EXCEPT ![p] = "extract"]
                /\ UNCHANGED <<jobCol, rangesFile, jobResult, jobError>>
                /\ UNCHANGED <<detectCalls, returned, written>>
           ELSE \E pixelsOk \in BOOLEAN :
                  IF pixelsOk
                  THEN LET rs == DetectColumn(p, c, threshold)
                       IN  /\ detectCalls' = Trace(detectCalls, detectCalls \cup {k})
                           /\ rangesFile' = [rangesFile EXCEPT ![k] = File(FormatRanges(rs))]
                           /\ written' = Trace(written, written \cup {<<"txt", k>>})
                           /\ jobRanges' = [jobRanges EXCEPT ![p] = rs]
                           /\ jobPc' = [jobPc EXCEPT ![p] = "extract"]
                           /\ UNCHANGED <<jobCol, jobResult, jobError, returned>>
                  ELSE /\ Throw(p, "getColumnRawPixels")
                       /\ UNCHANGED <<jobCol, jobRanges, rangesFile>>
                       /\ UNCHANGED <<detectCalls, returned, written>>
    /\ UNCHANGED <<outOfOrder, executing, errorLog, dataFile>>
    /\ UNCHANGED <<tracing, cacheState, extractCalls>>
    /\ MainFrame /\ JobFrame

\* processColumn: extractFromRanges, createCroppedImages, saveExtractedData
JobExtract(p) ==
    /\ MainSuspended
    /\ jobPc[p] = "extract"
    /\ LET c == jobCol[p]
           k == <<p, c>>
       IN  /\ extractCalls' = Trace(extractCalls, extractCalls \cup {k})
           /\ \E extractOk \in BOOLEAN :
                IF extractOk
                THEN LET extractedData == extractFromRanges(p, jobRanges[p], c)
                     IN  /\ dataFile' = [dataFile EXCEPT ![k] =
                                            File(JsonStringify(extractedData))]
                         /\ returned' = Trace(returned, [returned EXCEPT ![k] =
                                            Returned(extractedData, jobRanges[p])])
                         /\ written' = Trace(written, written \cup {<<"json", k>>})
                         /\ jobPc' = [jobPc EXCEPT ![p] = AfterColumn(c)]
                         /\ jobCol' = [jobCol EXCEPT ![p] = NextColumn(c)]
                         /\ UNCHANGED <<jobResult, jobError>>
                ELSE /\ Throw(p, "extractFromRanges")
                     /\ UNCHANGED <<jobCol, dataFile, returned, written>>
    /\ UNCHANGED <<jobRanges, outOfOrder, executing, errorLog, rangesFile>>
    /\ UNCHANGED <<tracing, cacheState, detectCalls>>
    /\ MainFrame /\ JobFrame

\* processPage: createCombinedAnnotation, the page CSV, return
JobFinish(p) ==
    /\ MainSuspended
    /\ jobPc[p] = "annot"
    /\ \E outputsOk \in BOOLEAN :
          IF outputsOk
          THEN /\ jobPc' = [jobPc EXCEPT ![p] = "settled"]
               /\ jobResult' = [jobResult EXCEPT ![p] = "succeeded"]
               /\ UNCHANGED jobError
               /\ outOfOrder' = (outOfOrder \/ SettlesEarly(p))
          ELSE /\ Throw(p, "generateOutputs")
               /\ UNCHANGED outOfOrder
    /\ UNCHANGED <<jobCol, jobRanges, executing, errorLog>>
    /\ MainFrame /\ JobFrame /\ UNCHANGED <<fileVars, traceVars>>

\* the error leaves iteratorFn: its promise rejects and nothing is logged
JobCatchRethrow(p) ==
    /\ MainSuspended
    /\ jobPc[p] = "thrown"
    /\ jobPc' = [jobPc EXCEPT ![p] = "rejected"]
    /\ outOfOrder' = (outOfOrder \/ SettlesEarly(p))
    /\ UNCHANGED <<jobCol, jobRanges, jobResult, jobError, executing, errorLog>>
    /\ MainFrame /\ JobFrame /\ UNCHANGED <<fileVars, traceVars>>

\* the catch block of iteratorFn: the error is logged with its page
JobCatch(p) ==
    /\ MainSuspended
    /\ jobPc[p] = "thrown"
    /\ errorLog' = Append(errorLog, p)
    /\ jobPc' = [jobPc EXCEPT ![p] = "settled"]
    /\ outOfOrder' = (outOfOrder \/ SettlesEarly(p))
    /\ UNCHANGED <<jobCol, jobRanges, jobResult, jobError, executing>>
    /\ MainFrame /\ JobFrame /\ UNCHANGED <<fileVars, traceVars>>

\* p.then(() => executing.splice(executing.indexOf(e), 1)): e resolves
JobRemove(p) ==
    /\ MainSuspended
    /\ jobPc[p] = "settled"
    /\ executing' = RemoveFirst(executing, p)
    /\ jobPc' = [jobPc EXCEPT ![p] = "removed"]
    /\ UNCHANGED <<jobCol, jobRanges, jobResult, jobError, outOfOrder, errorLog>>
    /\ MainFrame /\ JobFrame /\ UNCHANGED <<fileVars, traceVars>>

\* ---- the sequential aggregation
\* the two record files of a page, in the order they are read
AggregateFilesRL(page) == << <<page, "r">>, <<page, "l">> >>
AggregateFiles(page) == << <<page, "l">>, <<page, "r">> >>

MergeFile(k, acc) ==
    IF fileExists(dataFile[k]) THEN processRawData(JsonParse(dataFile[k].text), acc)
    ELSE acc

\* JSON.parse of the aggregation loop throws for the file
ParseFails(k) == fileExists(dataFile[k]) /\ JsonParseThrows(dataFile[k].text)

\* one iteration of the aggregation loop; no try block encloses the loop, so
\* an error of JSON.parse leaves processAll
AggregatePage ==
    /\ mainPc = "aggregate"
    /\ aggIdx <= NumPages
    /\ LET files == AggregateFiles(pageNumbers[aggIdx])
       IN  IF ParseFails(files[1])
           THEN mainPc' = "aggregateRejected" /\ UNCHANGED <<allRawData, aggIdx>>
           ELSE IF ParseFails(files[2])
           THEN /\ mainPc' = "aggregateRejected"
                /\ allRawData' = MergeFile(files[1], allRawData)
                /\ UNCHANGED aggIdx
           ELSE /\ allRawData' = MergeFile(files[2], MergeFile(files[1], allRawData))
                /\ aggIdx' = aggIdx + 1
                /\ UNCHANGED mainPc
    /\ UNCHANGED <<cpuCount, nextIdx, executing, awaited, errorLog>>
    /\ UNCHANGED <<poolVars, convVars, detVars, rowVars, aggVars, jobVars, fileVars, traceVars>>

GenerateCombinedOutputs ==
    /\ mainPc = "aggregate"
    /\ aggIdx > NumPages
    /\ mainPc' = "done"
    /\ UNCHANGED <<cpuCount, nextIdx, executing, awaited, allRawData, aggIdx, errorLog>>
    /\ UNCHANGED <<poolVars, convVars, detVars, rowVars, aggVars, jobVars, fileVars, traceVars>>

NextPipe ==
    \/ Submit
    \/ RaceResume
    \/ LoopEnd
    \/ AllResume
    \/ \E p \in Pages : JobStart(p)
    \/ \E p \in Pages : JobImage(p)
    \/ \E p \in Pages : JobColumn(p)
    \/ \E p \in Pages : JobExtract(p)
    \/ \E p \in Pages : JobFinish(p)
    \/ \E p \in Pages : JobCatch(p)
    \/ \E p \in Pages : JobRemove(p)
    \/ AggregatePage
    \/ GenerateCombinedOutputs

SpecPipe == InitPipe /\ [][NextPipe]_vars

SpecSerial == InitSerial /\ [][NextPipe]_vars

\* ========================================================= claims C9, C10
\* the records of the files present, pages ascending from the i-th page of
\* the run up to the n-th, left column before right column
RECURSIVE PersistedRecords(_, _)
PersistedRecords(i, n) ==
    IF i > n THEN <<>>
    ELSE LET page == PAGE_START + i - 1
             left == dataFile[<<page, "l">>]
             right == dataFile[<<page, "r">>]
         IN  (IF left.exists THEN left.text.json ELSE <<>>)
                \o (IF right.exists THEN right.text.json ELSE <<>>)
                \o PersistedRecords(i + 1, n)

\* C9: the aggregated list is the merge of the persisted record files in
\* ascending page order, left before right, whatever order the page jobs
\* were completed in.
C9_OrderInvariance ==
    mainPc \in {"aggregate", "done"} =>
        allRawData = processRawData(PersistedRecords(1, aggIdx - 1), <<>>)

\* a run in which a job settled before the job of a lower page, every record
\* file is present and a right-column continuation was merged
C9_Witness ==
    /\ mainPc = "done" /\ outOfOrder
    /\ \A k \in Keys : dataFile[k].exists
    /\ Len(allRawData) >= NumPages
    /\ \E i \in DOMAIN allRawData : \E j \in DOMAIN allRawData[i].example :
          allRawData[i].example[j] = "\n"

Failed == {p \in Pages : jobResult[p] = "failed"}
Succeeded == {p \in Pages : jobResult[p] = "succeeded"}

\* C10: whatever jobs throw, the concurrent phase does not reject, and when
\* it is over every job has been started and has ended, the
\* jobs that did not throw have both record files persisted, and the
\* failures logged are exactly the jobs that threw, once each.
C10_JobIsolation ==
    /\ mainPc # "rejected"
    /\ mainPc \in {"aggregate", "done"} =>
          /\ \A p \in Pages : jobPc[p] = "removed"
          /\ Failed \cup Succeeded = Pages
          /\ \A p \in Succeeded : \A c \in Columns : dataFile[<<p, c>>].exists
          /\ Len(errorLog) = Cardinality(Failed)
          /\ SeqRange(errorLog) = Failed

\* the first page failed, a later page succeeded after it
C10_Witness ==
    /\ mainPc = "done"
    /\ jobResult[PAGE_START] = "failed"
    /\ jobResult[PAGE_END] = "succeeded"
    /\ errorLog = <<PAGE_START>>
    /\ ~outOfOrder

\* ================================================================ claim C11
\* C11 as stated: whatever pages suffer a missing page image, a failing
\* extraction or an unreadable cached file, processAll does not reject: it
\* goes on to the generation of the combined output.
C11_ReachesCombinedOutput ==
    mainPc \notin {"rejected", "aggregateRejected"}

\* ================================================================ claim C12
\* the pages that text chunks of an aggregated entry were extracted from
PagesOfEntry(entry) ==
    {p \in Pages : \E j \in DOMAIN entry.example : entry.example[j] = ToString(p)}

\* C12 as stated: the aggregated entry list holds records only of pages whose
\* job succeeded; a failed page contributes no record of either column.
C12_OnlySucceededPages ==
    mainPc \in {"aggregate", "done"} =>
        \A i \in DOMAIN allRawData : PagesOfEntry(allRawData[i]) \subseteq Succeeded

\* ================================================================ claim C13
\* the stores of a key as the run found them
InitialRanges(k) == CachedRanges(k[1], k[2], cacheState[k[1]], PipeThreshold)
InitialData(k) == CachedData(k[1], k[2], cacheState[k[1]], PipeThreshold)

\* C13 as stated: whatever the cache held, once processColumn has returned
\* for a key both stores of the key exist and hold what was returned; a
\* records store found present means no detectBreaks and no
\* extractFromRanges call, otherwise the missing parts were computed.
C13_ColumnContract ==
    \A k \in Keys : returned[k].done =>
        /\ fileExists(rangesFile[k]) /\ fileExists(dataFile[k])
        /\ ~JsonParseThrows(dataFile[k].text)
        /\ returned[k].data = JsonParse(dataFile[k].text)
        /\ returned[k].ranges = ParseRanges(rangesFile[k].text)
        /\ IF fileExists(InitialData(k))
           THEN k \notin detectCalls \cup extractCalls
           ELSE /\ k \in extractCalls
                /\ fileExists(InitialRanges(k)) \/ k \in detectCalls

\* ================================================================ claim C14
\* both stores of both columns of the page were there when the run began
FullyCached(p) ==
    \A c \in Columns : /\ fileExists(InitialRanges(<<p, c>>))
                       /\ fileExists(InitialData(<<p, c>>))

\* C14: for a page whose four stores exist, processPage calls neither
\* detectBreaks nor extractFromRanges and every ranges file and records file
\* of the page keeps its content; so does processAll for a full cache.
C14_Idempotent ==
    \A p \in Pages : FullyCached(p) =>
        \A c \in Columns :
            /\ <<p, c>> \notin detectCalls \cup extractCalls
            /\ rangesFile[<<p, c>>] = InitialRanges(<<p, c>>)
            /\ dataFile[<<p, c>>] = InitialData(<<p, c>>)

\* processAll has run to its end over a cache that held every store, every
\* processColumn call has returned
C14_Witness ==
    /\ mainPc = "done"
    /\ \A p \in Pages : FullyCached(p) /\ jobResult[p] = "succeeded"
    /\ \A k \in Keys : returned[k].done
    /\ detectCalls = {} /\ extractCalls = {}

\* ================================================================ claim C15
\* C15: a step of a run leaves every ranges file and every records file that
\* exists as it is, and writes a file only if the file does not exist.
C15_WriteOnlyWhenAbsent ==
    [][\A k \in Keys :
          /\ fileExists(rangesFile[k]) =>
                /\ rangesFile'[k] = rangesFile[k]
                /\ <<"txt", k>> \notin written' \ written
          /\ fileExists(dataFile[k]) =>
                /\ dataFile'[k] = dataFile[k]
                /\ <<"json", k>> \notin written' \ written]_vars

\* a run that found the left ranges file of a page wrote the three other
\* files of the page and left that one alone
C15_Witness ==
    /\ mainPc = "done"
    /\ \E p \in Pages :
          /\ cacheState[p] = "rangesL"
          /\ {w \in written : w[2][1] = p} =
                {<<"json", <<p, "l">>>>, <<"txt", <<p, "r">>>>, <<"json", <<p, "r">>>>}
          /\ rangesFile[<<p, "l">>] = InitialRanges(<<p, "l">>)

\* ================================================================ claim C16
\* the records file of the key cannot be parsed
Unparsable(k) == fileExists(dataFile[k]) /\ dataFile[k].text = Malformed

\* C16: when processColumn meets a records file that cannot be parsed it
\* throws and processPage rejects, with no file changed and no call of
\* detectBreaks or extractFromRanges; such a file is never changed, no such
\* call is ever made for its key, and the job ends as a failure.
C16_CorruptionFailsJob ==
    /\ [][\A p \in Pages :
            (jobPc[p] = "col" /\ Unparsable(<<p, jobCol[p]>>) /\ jobPc'[p] # "col")
            => /\ jobPc'[p] = "thrown"
               /\ jobResult'[p] = "failed"
               /\ jobError'[p] = "JSON.parse"
               /\ UNCHANGED <<rangesFile, dataFile, detectCalls, extractCalls>>]_vars
    /\ [](\A k \in Keys : Unparsable(k) =>
            /\ dataFile[k] = InitialData(k)
            /\ k \notin detectCalls \cup extractCalls
            /\ ~returned[k].done
            /\ jobPc[k[1]] \in {"settled", "removed"} => jobResult[k[1]] = "failed")

\* the job of a page with an unparsable left records file failed at
\* JSON.parse and was logged, the job of the other page succeeded
C16_Witness ==
    /\ \A p \in Pages : jobPc[p] = "removed"
    /\ Unparsable(<<PAGE_START, "l">>)
    /\ jobError[PAGE_START] = "JSON.parse"
    /\ errorLog = <<PAGE_START>>
    /\ jobResult[PAGE_END] = "succeeded"

\* ===================================================== Spec: WorkerPool
MaxJobs == 2
MaxSize == 1
MaxFaults == 1

Jobs == 1..MaxJobs
\* every Worker object the pool can create: the first ones, one per fault and
\* one per timeout
WorkerIds == 1..(MaxSize + MaxFaults + MaxJobs)
NoTask == 0
NoWorker == 0

\* the argument of the j-th exec call: a plain value (kept in the payload
\* field), an object with a payload and a timeout, an object whose timeout
\* is not positive
JobArgs ==
    << [isObject |-> FALSE, hasPayload |-> FALSE, payload |-> "png",
        timeout |-> Undefined],
       [isObject |-> TRUE, hasPayload |-> TRUE, payload |-> "crop",
        timeout |-> 10000],
       [isObject |-> TRUE, hasPayload |-> TRUE, payload |-> "annotate",
        timeout |-> 0] >>
JobArg(j) == JobArgs[((j - 1) % Len(JobArgs)) + 1]

\* exec: { reviver: v => v, ...job } or { payload: job, reviver: v => v }
normalizedJob(job) ==
    IF job.isObject /\ job.hasPayload
    THEN [payload |-> job.payload, timeout |-> job.timeout]
    ELSE [payload |-> job.payload, timeout |-> Undefined]

DefaultTimeoutMs == 30000
timeoutMs(job) ==
    IF job.timeout # Undefined /\ job.timeout > 0 THEN job.timeout
    ELSE DefaultTimeoutMs

NoTimer == [worker |-> NoWorker, ms |-> 0]
Alive(w) == thread[w] \in {"starting", "online"}
Settled(j) == promise[j] \notin {"none", "pending"}

\* resolve / reject of a promise: only the first call settles it
Settle(pr, j, how) == IF pr[j] = "pending" THEN [pr EXCEPT ![j] = how] ELSE pr

Without(sq, v) == SelectSeq(sq, LAMBDA x : x # v)

\* the fields of the pool that _dispatch reads and writes
PoolState ==
    [queue |-> queue, idleWorkers |-> idleWorkers, currentTask |-> currentTask,
     posted |-> posted, timer |-> timer, dispatched |-> dispatched]

\* _dispatch takes the job at the tail of the queue
dispatchLifo(st) ==
    IF Len(st.queue) > 0 /\ Len(st.idleWorkers) > 0
    THEN LET worker == st.idleWorkers[Len(st.idleWorkers)]
             task == st.queue[Len(st.queue)]
         IN  [queue |-> SubSeq(st.queue, 1, Len(st.queue) - 1),
              idleWorkers |-> SubSeq(st.idleWorkers, 1, Len(st.idleWorkers) - 1),
              currentTask |-> [st.currentTask EXCEPT ![worker] = task],
              posted |-> [st.posted EXCEPT ![worker] = TRUE],
              timer |-> [st.timer EXCEPT ![task] =
                            [worker |-> worker,
                             ms |-> timeoutMs(normalizedJob(JobArg(task)))]],
              dispatched |-> Append(st.dispatched, task)]
    ELSE st

\* one iteration of the while loop of _dispatch: the last idle worker takes
\* the first task of the queue, its timer is set and its payload is posted
dispatchOne(st) ==
    IF Len(st.queue) > 0 /\ Len(st.idleWorkers) > 0
    THEN LET worker == st.idleWorkers[Len(st.idleWorkers)]
             task == Head(st.queue)
         IN  [queue |-> Tail(st.queue),
              idleWorkers |-> SubSeq(st.idleWorkers, 1, Len(st.idleWorkers) - 1),
              currentTask |-> [st.currentTask EXCEPT ![worker] = task],
              posted |-> [st.posted EXCEPT ![worker] = TRUE],
              timer |-> [st.timer EXCEPT ![task] =
                            [worker |-> worker,
                             ms |-> timeoutMs(normalizedJob(JobArg(task)))]],
              dispatched |-> Append(st.dispatched, task)]
    ELSE st

RECURSIVE dispatch(_)
dispatch(st) ==
    IF Len(st.queue) > 0 /\ Len(st.idleWorkers) > 0 THEN dispatch(dispatchOne(st))
    ELSE st

\* the pool after _dispatch() ran on st
Dispatched(st) ==
    LET after == dispatch(st)
    IN  /\ queue' = after.queue
        /\ idleWorkers' = after.idleWorkers
        /\ currentTask' = after.currentTask
        /\ posted' = after.posted
        /\ timer' = after.timer
        /\ dispatched' = after.dispatched

PoolFrame == UNCHANGED <<detVars, rowVars, aggVars, pipeVars, convVars>>

\* new WorkerPool(url, size): _spawnWorkers has created `size` workers, none
\* of them is online yet
InitPool ==
    /\ pixelBuffer = <<>>
    /\ width = 1 /\ height = 0 /\ channels = 3
    /\ threshold = 0
    /\ overrides = {}
    /\ y = 0
    /\ state = InitMachine.state
    /\ start = InitMachine.start
    /\ rectStart = InitMachine.rectStart
    /\ ranges = InitMachine.ranges
    /\ pc = "pool"
    /\ IdleRow
    /\ IdleAgg
    /\ IdlePipe
    /\ IdleConvert
    /\ size \in 1..MaxSize
    /\ workers = <<>> /\ idleWorkers = <<>> /\ queue = <<>>
    /\ isClosing = FALSE
    /\ thread = [w \in WorkerIds |-> IF w <= size THEN "starting" ELSE "none"]
    /\ currentTask = [w \in WorkerIds |-> NoTask]
    /\ posted = [w \in WorkerIds |-> FALSE]
    /\ nextWorker = size + 1
    /\ timer = [j \in Jobs |-> NoTimer]
    /\ promise = [j \in Jobs |-> "none"]
    /\ nextJob = 1
    /\ dispatched = <<>>
    /\ replacing = 0
    /\ destroyPc = "none"
    /\ faults = 0
    /\ onlineResolved = {}
    /\ IdleRoundRobin

\* exec(job): the task is pushed and _dispatch runs
exec ==
    /\ pc = "pool"
    /\ nextJob <= MaxJobs
    /\ promise' = [promise EXCEPT ![nextJob] = "pending"]
    /\ Dispatched([PoolState EXCEPT !.queue = Append(queue, nextJob)])
    /\ nextJob' = nextJob + 1
    /\ UNCHANGED <<rrVars, onlineResolved, size, workers, isClosing, thread, nextWorker, replacing,
                   destroyPc, faults>>
    /\ PoolFrame

\* the 'online' event of a worker
OnOnline(w) ==
    /\ pc = "pool"
    /\ thread[w] = "starting"
    /\ thread' = [thread EXCEPT ![w] = "online"]
    /\ workers' = Append(workers, w)
    /\ Dispatched([PoolState EXCEPT !.idleWorkers = Append(idleWorkers, w)])
    /\ onlineResolved' = onlineResolved \cup ({w} \cap 1..size)
    /\ UNCHANGED <<rrVars, size, isClosing, nextWorker, promise, nextJob, replacing,
                   destroyPc, faults>>
    /\ PoolFrame

\* what a worker posts back: the result of its handler, or the object
\* { error: err.message } when the handler threw
WorkerReplies == {"reply", "errorReply"}

\* the default reviver of exec: v => v
reviver(v) == v

\* the worker answers the message posted to it: onMessage, which ends with
\* _returnWorkerToPool
OnMessage(w, result) ==
    /\ pc = "pool"
    /\ thread[w] = "online"
    /\ posted[w]
    /\ LET task == currentTask[w]
       IN  IF task = NoTask
           THEN /\ posted' = [posted EXCEPT ![w] = FALSE]
                /\ UNCHANGED <<queue, idleWorkers, currentTask, timer,
                               dispatched, promise>>
           ELSE /\ promise' = Settle(promise, task, reviver(result))
                /\ Dispatched([PoolState EXCEPT
                                  !.timer[task] = NoTimer,
                                  !.currentTask[w] = NoTask,
                                  !.posted[w] = FALSE,
                                  !.idleWorkers = Append(idleWorkers, w)])
    /\ UNCHANGED <<rrVars, onlineResolved, size, workers, isClosing, thread, nextWorker, nextJob,
                   replacing, destroyPc, faults>>
    /\ PoolFrame

\* _replaceWorker never creates a worker
ReplaceWorkerNoRespawn(w, ended) ==
    /\ thread' = [thread EXCEPT ![w] = ended]
    /\ IF isClosing
       THEN UNCHANGED <<workers, idleWorkers, replacing>>
       ELSE /\ workers' = Without(workers, w)
            /\ idleWorkers' = Without(idleWorkers, w)
            /\ UNCHANGED replacing

\* _replaceWorker creates two workers for the one it removes
ReplaceWorkerSpawnsTwo(w, ended) ==
    /\ thread' = [thread EXCEPT ![w] = ended]
    /\ IF isClosing
       THEN UNCHANGED <<workers, idleWorkers, replacing>>
       ELSE /\ workers' = Without(workers, w)
            /\ idleWorkers' = Without(idleWorkers, w)
            /\ replacing' = replacing + 2

\* _replaceWorker(w) up to its first await: during shutdown the worker is
\* only terminated, otherwise it leaves both lists and a new worker will be
\* created once terminate() has resolved
ReplaceWorker(w, ended) ==
    /\ thread' = [thread EXCEPT ![w] = ended]
    /\ IF isClosing
       THEN UNCHANGED <<workers, idleWorkers, replacing>>
       ELSE /\ workers' = Without(workers, w)
            /\ idleWorkers' = Without(idleWorkers, w)
            /\ replacing' = replacing + 1

\* the rest of _replaceWorker: await this._createWorker()
CreateWorker ==
    /\ pc = "pool"
    /\ replacing > 0
    /\ replacing' = replacing - 1
    /\ thread' = [thread EXCEPT ![nextWorker] = "starting"]
    /\ nextWorker' = nextWorker + 1
    /\ UNCHANGED <<rrVars, onlineResolved, size, workers, idleWorkers, queue, isClosing, currentTask,
                   posted, timer, promise, nextJob, dispatched, destroyPc, faults>>
    /\ PoolFrame

\* the worker's task is rejected but stays the worker's current task
FailTaskKeepsTask(w, how) ==
    LET task == currentTask[w]
    IN  IF task # NoTask
        THEN /\ timer' = [timer EXCEPT ![task] = NoTimer]
             /\ promise' = Settle(promise, task, how)
             /\ UNCHANGED currentTask
        ELSE UNCHANGED <<timer, promise, currentTask>>

\* the worker's task is rejected and forgotten (onError, onExit with code # 0)
FailTask(w, how) ==
    LET task == currentTask[w]
    IN  IF task # NoTask
        THEN /\ timer' = [timer EXCEPT ![task] = NoTimer]
             /\ promise' = Settle(promise, task, how)
             /\ currentTask' = [currentTask EXCEPT ![w] = NoTask]
        ELSE UNCHANGED <<timer, promise, currentTask>>

\* the 'error' event of a worker
OnError(w) ==
    /\ pc = "pool"
    /\ Alive(w)
    /\ faults < MaxFaults
    /\ faults' = faults + 1
    /\ FailTask(w, "error")
    /\ ReplaceWorker(w, "errored")
    /\ UNCHANGED <<rrVars, onlineResolved, size, queue, isClosing, posted, nextWorker, nextJob,
                   dispatched, destroyPc>>
    /\ PoolFrame

\* the 'exit' event of a worker whose thread ended by itself
OnExit(w, code) ==
    /\ pc = "pool"
    /\ Alive(w)
    /\ faults < MaxFaults
    /\ faults' = faults + 1
    /\ IF code # 0
       THEN /\ FailTask(w, "exit")
            /\ ReplaceWorker(w, "exitedNonZero")
       ELSE IF currentTask[w] = NoTask
       THEN /\ ReplaceWorker(w, "exitedZero")
            /\ UNCHANGED <<timer, promise, currentTask>>
       ELSE /\ thread' = [thread EXCEPT ![w] = "exitedZero"]
            /\ UNCHANGED <<timer, promise, currentTask, workers, idleWorkers,
                           replacing>>
    /\ UNCHANGED <<rrVars, onlineResolved, size, queue, isClosing, posted, nextWorker, nextJob,
                   dispatched, destroyPc>>
    /\ PoolFrame

\* the timer of a dispatched task fires: onTimeout
OnTimeout(j) ==
    /\ pc = "pool"
    /\ timer[j] # NoTimer
    /\ LET worker == timer[j].worker
       IN  /\ promise' = Settle(promise, j, "timeout")
           /\ currentTask' = [currentTask EXCEPT ![worker] = NoTask]
           /\ timer' = [timer EXCEPT ![j] = NoTimer]
           /\ ReplaceWorker(worker, "terminated")
    /\ UNCHANGED <<rrVars, onlineResolved, size, queue, isClosing, posted, nextWorker, nextJob,
                   dispatched, destroyPc, faults>>
    /\ PoolFrame

\* destroy rejects nothing
RejectNone(pr, pending) == pr
\* for (const pending of this._queue) pending.reject(...)
RejectAll(pr, pending) ==
    [j \in DOMAIN pr |->
        IF j \in SeqRange(pending) THEN Settle(pr, j, "destroyed")[j] ELSE pr[j]]

\* destroy() up to its await: the queued tasks are rejected, the queue is
\* emptied, every worker of _workers loses its listeners and is terminated
destroy ==
    /\ pc = "pool"
    /\ destroyPc = "none"
    /\ isClosing' = TRUE
    /\ promise' = RejectAll(promise, queue)
    /\ queue' = <<>>
    /\ thread' = [w \in WorkerIds |->
                    IF w \in SeqRange(workers) /\ Alive(w) THEN "terminated"
                    ELSE thread[w]]
    /\ destroyPc' = "terminating"
    /\ UNCHANGED <<rrVars, onlineResolved, size, workers, idleWorkers, currentTask, posted, nextWorker,
                   timer, nextJob, dispatched, replacing, faults>>
    /\ PoolFrame

\* destroy() after its await: both worker lists are emptied
DestroyResume ==
    /\ pc = "pool"
    /\ destroyPc = "terminating"
    /\ workers' = <<>>
    /\ idleWorkers' = <<>>
    /\ destroyPc' = "done"
    /\ UNCHANGED <<rrVars, onlineResolved, size, queue, isClosing, thread, currentTask, posted,
                   nextWorker, timer, promise, nextJob, dispatched, replacing,
                   faults>>
    /\ PoolFrame

NextPool ==
    \/ exec
    \/ \E w \in WorkerIds : OnOnline(w)
    \/ \E w \in WorkerIds : \E result \in WorkerReplies : OnMessage(w, result)
    \/ \E w \in WorkerIds : OnError(w)
    \/ \E w \in WorkerIds : \E code \in {0, 1} : OnExit(w, code)
    \/ \E j \in Jobs : OnTimeout(j)
    \/ CreateWorker
    \/ destroy
    \/ DestroyResume

SpecPool == InitPool /\ [][NextPool]_vars

\* every event that is due is delivered: a worker that started comes online,
\* a live worker answers, a pending timer fires, terminate() resolves
PoolFairness ==
    /\ \A w \in WorkerIds : WF_vars(OnOnline(w))
    /\ \A w \in WorkerIds : WF_vars(\E result \in WorkerReplies : OnMessage(w, result))
    /\ \A j \in Jobs : WF_vars(OnTimeout(j))
    /\ WF_vars(CreateWorker)
    /\ WF_vars(DestroyResume)

SpecPoolFair == SpecPool /\ PoolFairness

\* ================================================================ claim C17
Increasing(sq) == \A a, b \in DOMAIN sq : a < b => sq[a] < sq[b]

\* C17: jobs are numbered in submission order; the jobs handed to workers
\* so far were handed over in that order, every job still queued was
\* submitted after every job handed over, and no handler leaves a job
\* queued while _idleWorkers holds a worker.
C17_SubmissionOrder ==
    pc = "pool" =>
        /\ Increasing(dispatched)
        /\ Increasing(queue)
        /\ \A i \in SeqRange(queue) : \A j \in SeqRange(dispatched) : j < i
        /\ queue # <<>> => idleWorkers = <<>>

\* two jobs were submitted before the only worker was online; the worker took
\* the first of them, answered it, and then took the second
C17_Witness ==
    /\ pc = "pool" /\ size = 1
    /\ promise[1] = "reply"
    /\ promise[2] = "pending"
    /\ dispatched = <<1, 2>>
    /\ queue = <<>>
    /\ \E w \in WorkerIds : currentTask[w] = 2

\* ================================================================ claim C18
\* the step is the 'error' event, a non-zero 'exit' event or the timeout of
\* the job of worker w
ErrorStep(w) == Alive(w) /\ thread'[w] = "errored"
NonZeroExitStep(w) == Alive(w) /\ thread'[w] = "exitedNonZero"
TimeoutStep(w) ==
    /\ currentTask[w] # NoTask
    /\ timer[currentTask[w]] # NoTimer
    /\ timer'[currentTask[w]] = NoTimer
    /\ thread'[w] = "terminated"
FaultStep(w) == ErrorStep(w) \/ NonZeroExitStep(w) \/ TimeoutStep(w)

HowRejected(w) ==
    IF ErrorStep(w) THEN "error"
    ELSE IF NonZeroExitStep(w) THEN "exit" ELSE "timeout"

\* the job in flight on w, and no other, is rejected and is gone for good
OnlyItsJobRejected(w) ==
    LET j == currentTask[w]
    IN  /\ promise[j] = "pending"
        /\ promise'[j] = HowRejected(w)
        /\ \A i \in Jobs \ {j} : promise'[i] = promise[i]
        /\ j \notin SeqRange(queue')
        /\ \A v \in WorkerIds : currentTask'[v] # j
        /\ dispatched' = dispatched

\* w leaves the pool and a new worker is due
Replaced(w) ==
    /\ ~(thread'[w] \in {"starting", "online"})
    /\ w \notin SeqRange(workers') \cup SeqRange(idleWorkers')
    /\ replacing' = replacing + 1

\* every timer runs for the job's own timeout, or for 30 s, and no job is
\* handed to a worker twice
TimersAndDispatches ==
    pc = "pool" =>
        /\ \A j \in Jobs : timer[j] # NoTimer =>
              timer[j].ms = IF JobArg(j).isObject /\ JobArg(j).timeout # Undefined
                               /\ JobArg(j).timeout > 0
                            THEN JobArg(j).timeout ELSE 30000
        /\ \A a, b \in DOMAIN dispatched : a # b => dispatched[a] # dispatched[b]

\* C18 as stated: a worker error, a non-zero exit or a timeout rejects
\* exactly the job in flight on that worker, which is never queued or
\* dispatched again, and the worker is terminated and replaced by a new one.
C18_FaultReplacesWorker ==
    /\ []TimersAndDispatches
    /\ [][\A w \in WorkerIds :
            (pc = "pool" /\ FaultStep(w) /\ currentTask[w] # NoTask)
            => OnlyItsJobRejected(w) /\ Replaced(w)]_vars

\* C18, amended: the same, but the worker is replaced only while the pool is
\* not closing; once destroy() has been called it is only terminated.
C18_FaultReplacesUnlessClosing ==
    /\ []TimersAndDispatches
    /\ [][\A w \in WorkerIds :
            (pc = "pool" /\ FaultStep(w) /\ currentTask[w] # NoTask)
            => /\ OnlyItsJobRejected(w)
               /\ ~(thread'[w] \in {"starting", "online"})
               /\ IF isClosing THEN replacing' = replacing
                  ELSE Replaced(w)]_vars

\* the first job was rejected by the error of its worker and the worker was
\* replaced; the second job, handed to the replacement, timed out after
\* destroy() and its worker was not replaced
C18_Witness ==
    /\ pc = "pool" /\ size = 1
    /\ promise[1] = "error"
    /\ promise[2] = "timeout"
    /\ isClosing
    /\ nextWorker = 3
    /\ replacing = 0

\* ================================================================ claim C19
\* C19: destroy() rejects every queued job and empties the queue, and a job
\* rejected by destroy() is never handed to a worker.
C19_DestroyRejectsQueue ==
    /\ [][(pc = "pool" /\ ~isClosing /\ isClosing')
            => /\ queue' = <<>>
               /\ \A j \in SeqRange(queue) : promise'[j] = "destroyed"
               /\ \A j \in Jobs \ SeqRange(queue) : promise'[j] = promise[j]]_vars
    /\ [](pc = "pool" =>
            \A j \in Jobs : promise[j] = "destroyed" =>
                /\ j \notin SeqRange(queue) \cup SeqRange(dispatched)
                /\ \A w \in WorkerIds : currentTask[w] # j)

\* the worker of the first job failed, so destroy() found the second job
\* still queued and rejected it; the replacement came online afterwards and
\* stays idle
C19_Witness ==
    /\ pc = "pool" /\ destroyPc = "done"
    /\ promise[1] = "error" /\ promise[2] = "destroyed"
    /\ dispatched = <<1>>
    /\ \E w \in WorkerIds : thread[w] = "online" /\ currentTask[w] = NoTask

NoDuplicates(sq) == \A a, b \in DOMAIN sq : a # b => sq[a] # sq[b]

\* C21: a task is the current task of at most one worker (a worker has one
\* currentTask field, so at most one task); a worker with a current task is
\* not in _idleWorkers; no worker is twice in _idleWorkers; a task that was
\* completed or failed is nobody's current task, and a worker gets a new
\* current task only when it had none or its old one has been settled.
C21_TaskOwnership ==
    /\ [](pc = "pool" =>
            /\ \A w, v \in WorkerIds :
                  (currentTask[w] # NoTask /\ currentTask[w] = currentTask[v])
                  => w = v
            /\ \A w \in SeqRange(idleWorkers) : currentTask[w] = NoTask
            /\ NoDuplicates(idleWorkers)
            /\ \A w \in WorkerIds :
                  currentTask[w] # NoTask => promise[currentTask[w]] = "pending")
    /\ [][\A w \in WorkerIds :
            (pc = "pool" /\ currentTask'[w] # NoTask
             /\ currentTask'[w] # currentTask[w])
            => \/ currentTask[w] = NoTask
               \/ promise'[currentTask[w]] \notin {"none", "pending"}]_vars

\* the worker of the first job exited with a non-zero code; the job was
\* rejected and the replacement now owns the second job
C21_Witness ==
    /\ pc = "pool"
    /\ promise[1] = "exit"
    /\ thread[1] = "exitedNonZero" /\ currentTask[1] = NoTask
    /\ currentTask[2] = 2
    /\ idleWorkers = <<>>

\* ================================================================ claim C22
\* C22 as stated: when the worker-side handler of a job throws, the promise
\* that exec returned is rejected, so it is never resolved with the worker's
\* error object.
C22_HandlerErrorRejects ==
    pc = "pool" => \A j \in Jobs : promise[j] # "errorReply"

\* ================================================================ claim C23
\* the pages whose iteratorFn call was scheduled and has not settled
InFlight ==
    {p \in Pages : jobPc[p] \in {"pending", "image", "col", "extract", "annot",
                                  "thrown"}}

PipeFairness ==
    /\ WF_vars(Submit)
    /\ WF_vars(RaceResume)
    /\ WF_vars(LoopEnd)
    /\ WF_vars(AllResume)
    /\ WF_vars(AggregatePage)
    /\ WF_vars(GenerateCombinedOutputs)
    /\ \A p \in Pages :
          /\ WF_vars(JobStart(p))
          /\ WF_vars(JobImage(p))
          /\ WF_vars(JobColumn(p))
          /\ WF_vars(JobFinish(p))
          /\ WF_vars(JobCatch(p))
          /\ WF_vars(JobRemove(p))

SpecPipeFair == SpecPipe /\ PipeFairness

\* C24 as stated: processAll ends - with the combined output or with an
\* error - even when a page job never settles.
C24_TerminatesDespiteHungJob ==
    <>(mainPc \in {"done", "rejected", "aggregateRejected"})

\* ============================================ Spec: convertPDFToPNG
\* doc.countPages(): the PDF can be shorter or longer than the page range
PageCounts == (PAGE_START - 1)..(PAGE_END + 1)

ConvFrame == UNCHANGED <<detVars, rowVars, aggVars, pipeVars, poolVars>>

\* a call of convertPDFToPNG over any set of PNG files
InitConvert ==
    /\ pixelBuffer = <<>>
    /\ width = 1 /\ height = 0 /\ channels = 3
    /\ threshold = 0
    /\ overrides = {}
    /\ y = 0
    /\ state = InitMachine.state
    /\ start = InitMachine.start
    /\ rectStart = InitMachine.rectStart
    /\ ranges = InitMachine.ranges
    /\ pc = "convert"
    /\ IdleRow
    /\ IdleAgg
    /\ IdlePipe
    /\ IdlePool
    /\ convPc = "start"
    /\ pdfExists \in BOOLEAN
    /\ pngFile \in [Pages -> BOOLEAN]
    /\ pngBefore = pngFile
    /\ pageCount \in PageCounts
    /\ todo = <<>>
    /\ concurrency \in 1..MaxCpus
    /\ todoIdx = 1
    /\ convExecuting = <<>>
    /\ convAwaited = {}
    /\ renderPc = [p \in Pages |-> "new"]
    /\ rendered = {}

\* "Build a list of pages that still need rendering"
PagesTodo ==
    SelectSeq(pageNumbers, LAMBDA p : p <= pageCount /\ ~pngFile[p])

\* "Sentinel: if the very last expected PNG exists, assume all pages done"
Sentinel == pngFile[PAGE_END]

\* convertPDFToPNG up to the call of _runWithConcurrency
ConvStart ==
    /\ pc = "convert"
    /\ convPc = "start"
    /\ IF ~pdfExists
       THEN convPc' = "rejected" /\ UNCHANGED todo
       ELSE IF Sentinel
       THEN convPc' = "resolved" /\ UNCHANGED todo
       ELSE convPc' = "loop" /\ todo' = PagesTodo
    /\ UNCHANGED <<pdfExists, pngFile, pngBefore, pageCount, concurrency,
                   todoIdx, convExecuting, convAwaited, renderPc, rendered>>
    /\ ConvFrame

\* one iteration of the for loop of _runWithConcurrency
ConvSubmit ==
    /\ pc = "convert"
    /\ convPc = "loop"
    /\ todoIdx <= Len(todo)
    /\ LET item == todo[todoIdx]
           pushed == Append(convExecuting, item)
       IN  /\ renderPc' = [renderPc EXCEPT ![item] = "pending"]
           /\ convExecuting' = pushed
           /\ IF Len(pushed) >= concurrency
              THEN convPc' = "race" /\ convAwaited' = SeqRange(pushed)
              ELSE UNCHANGED <<convPc, convAwaited>>
    /\ todoIdx' = todoIdx + 1
    /\ UNCHANGED <<pdfExists, pngFile, pngBefore, pageCount, todo, concurrency,
                   rendered>>
    /\ ConvFrame

\* await Promise.race(executing) settles with one of the promises awaited
ConvRaceResume ==
    /\ pc = "convert"
    /\ convPc = "race"
    /\ \E p \in convAwaited :
          /\ renderPc[p] \in {"removed", "rejected"}
          /\ convPc' = IF renderPc[p] = "rejected" THEN "rejected" ELSE "loop"
    /\ convAwaited' = {}
    /\ UNCHANGED <<pdfExists, pngFile, pngBefore, pageCount, todo, concurrency,
                   todoIdx, convExecuting, renderPc, rendered>>
    /\ ConvFrame

\* the for loop is over: await Promise.all(executing)
ConvLoopEnd ==
    /\ pc = "convert"
    /\ convPc = "loop"
    /\ todoIdx > Len(todo)
    /\ convPc' = "all"
    /\ convAwaited' = SeqRange(convExecuting)
    /\ UNCHANGED <<pdfExists, pngFile, pngBefore, pageCount, todo, concurrency,
                   todoIdx, convExecuting, renderPc, rendered>>
    /\ ConvFrame

\* Promise.all settles and convertPDFToPNG returns
ConvAllResume ==
    /\ pc = "convert"
    /\ convPc = "all"
    /\ LET rejected == \E p \in convAwaited : renderPc[p] = "rejected"
       IN  /\ rejected \/ \A p \in convAwaited : renderPc[p] = "removed"
           /\ convPc' = IF rejected THEN "rejected" ELSE "resolved"
    /\ convAwaited' = {}
    /\ UNCHANGED <<pdfExists, pngFile, pngBefore, pageCount, todo, concurrency,
                   todoIdx, convExecuting, renderPc, rendered>>
    /\ ConvFrame

ConvSuspended == convPc \in {"race", "all"}

\* iteratorFn: "Double-check in case another worker already rendered it"
RenderCheck(p) ==
    /\ pc = "convert"
    /\ ConvSuspended
    /\ renderPc[p] = "pending"
    /\ renderPc' = [renderPc EXCEPT ![p] =
                        IF pngFile[p] THEN "settled" ELSE "render"]
    /\ UNCHANGED <<convPc, pdfExists, pngFile, pngBefore, pageCount, todo,
                   concurrency, todoIdx, convExecuting, convAwaited, rendered>>
    /\ ConvFrame

\* iteratorFn: loadPage, toPixmap, writeFile; any of them can throw
RenderPage(p) ==
    /\ pc = "convert"
    /\ ConvSuspended
    /\ renderPc[p] = "render"
    /\ \E renderOk \in BOOLEAN :
          IF renderOk
          THEN /\ pngFile' = [pngFile EXCEPT ![p] = TRUE]
               /\ rendered' = rendered \cup {p}
               /\ renderPc' = [renderPc EXCEPT ![p] = "settled"]
          ELSE /\ renderPc' = [renderPc EXCEPT ![p] = "rejected"]
               /\ UNCHANGED <<pngFile, rendered>>
    /\ UNCHANGED <<convPc, pdfExists, pngBefore, pageCount, todo, concurrency,
                   todoIdx, convExecuting, convAwaited>>
    /\ ConvFrame

\* p.then(() => executing.splice(executing.indexOf(e), 1)): e resolves
RenderRemove(p) ==
    /\ pc = "convert"
    /\ ConvSuspended
    /\ renderPc[p] = "settled"
    /\ convExecuting' = RemoveFirst(convExecuting, p)
    /\ renderPc' = [renderPc EXCEPT ![p] = "removed"]
    /\ UNCHANGED <<convPc, pdfExists, pngFile, pngBefore, pageCount, todo,
                   concurrency, todoIdx, convAwaited, rendered>>
    /\ ConvFrame

NextConvert ==
    \/ ConvStart
    \/ ConvSubmit
    \/ ConvRaceResume
    \/ ConvLoopEnd
    \/ ConvAllResume
    \/ \E p \in Pages : RenderCheck(p)
    \/ \E p \in Pages : RenderPage(p)
    \/ \E p \in Pages : RenderRemove(p)

SpecConvert == InitConvert /\ [][NextConvert]_vars

\* ================================================================ claim C25
\* C25 as stated: when convertPDFToPNG has resolved, every page of the range
\* that the PDF contains has its PNG, and no page whose PNG was there before
\* the call was rendered, whatever PNG files were there before the call.
C25_AllPagesConverted ==
    (pc = "convert" /\ convPc = "resolved") =>
        /\ \A p \in Pages : p <= pageCount => pngFile[p]
        /\ \A p \in Pages : pngBefore[p] => p \notin rendered

\* ================================================= Spec: generateCSV
MaxEntries == 2

DQ == "\""
Comma == ","
LF == "\n"

\* definitions and examples as sequences of characters and of chunks of
\* characters that are neither quotes, commas nor newlines
CsvFields ==
    { <<>>, <<"test">>, <<"test ", DQ, "quoted", DQ>>, <<DQ>>,
      <<"a", Comma, "b">>, <<"test", LF, "multiline">> }
CsvEntries == [definition : CsvFields, example : CsvFields]
CsvInputs == UNION { [1..n -> CsvEntries] : n \in 0..MaxEntries }

\* getGitVersion(): `git describe --always --dirty`, or 'unknown'
GitVersions == {"unknown", "1a2b3c4", "1a2b3c4-dirty"}
\* new Date().toLocaleString('en-US', { timeZone: 'UTC', ... })
GeneratedAt == <<"11/04/2026", Comma, " 05:00:00 AM UTC">>

RECURSIVE Flatten(_)
Flatten(seqs) == IF seqs = <<>> THEN <<>> ELSE Head(seqs) \o Flatten(Tail(seqs))

\* a quote is copied as it is
keepQuote(c) == <<c>>
\* the replacement of one character: '"' becomes '""'
doubleQuote(c) == IF c = DQ THEN <<DQ, DQ>> ELSE <<c>>

\* str.replace(/"/g, '""')
replaceQuotes(str) == Flatten([i \in DOMAIN str |-> doubleQuote(str[i])])

\* the header line
csvHeader(version) ==
    <<DQ, "Goethe Zertifikat B1 Wortliste", DQ, Comma,
      DQ, "Version ", version, " -- generated at ">> \o GeneratedAt \o <<DQ, LF>>

\* csv += `"${def}","${example}"\n`
csvRecord(item) ==
    <<DQ>> \o replaceQuotes(item.definition) \o <<DQ, Comma, DQ>>
        \o replaceQuotes(item.example) \o <<DQ, LF>>

RECURSIVE csvRecords(_)
csvRecords(data) ==
    IF data = <<>> THEN <<>>
    ELSE csvRecord(Head(data)) \o csvRecords(Tail(data))

generateCSV(data, version) == csvHeader(version) \o csvRecords(data)

InitCsv ==
    /\ pixelBuffer = <<>>
    /\ width = 1 /\ height = 0 /\ channels = 3
    /\ threshold = 0
    /\ overrides = {}
    /\ y = 0
    /\ state = InitMachine.state
    /\ start = InitMachine.start
    /\ rectStart = InitMachine.rectStart
    /\ ranges = InitMachine.ranges
    /\ pc = "csv"
    /\ IdleRow
    /\ IdleAgg
    /\ IdlePipe
    /\ IdlePool
    /\ IdleConvert

\* a call generateCSV(data, page)
CallGenerateCSV ==
    /\ pc = "csv"
    /\ calls = 0
    /\ \E data \in CsvInputs : \E version \in GitVersions :
          /\ inputData' = data
          /\ gitVersion' = version
          /\ csv' = generateCSV(data, version)
    /\ calls' = 1
    /\ UNCHANGED buf
    /\ UNCHANGED <<detVars, rowVars, pipeVars, poolVars, convVars>>

NextCsv == CallGenerateCSV

SpecCsv == InitCsv /\ [][NextCsv]_vars

\* ================================================================ claim C26
\* a reader of quoted CSV: the records of text, each a sequence of fields;
\* inside quotes a doubled quote is one quote and commas and newlines are
\* text, outside quotes a comma ends a field and a newline ends a record
RECURSIVE CsvRead(_, _, _, _, _)
CsvRead(text, inQuotes, field, record, records) ==
    IF text = <<>>
    THEN IF inQuotes \/ field # <<>> \/ record # <<>>
         THEN Append(records, <<"unterminated">>)
         ELSE records
    ELSE LET c == Head(text)
             rest == Tail(text)
         IN  IF inQuotes
             THEN IF c = DQ
                  THEN IF rest # <<>> /\ Head(rest) = DQ
                       THEN CsvRead(Tail(rest), TRUE, Append(field, DQ), record, records)
                       ELSE CsvRead(rest, FALSE, field, record, records)
                  ELSE CsvRead(rest, TRUE, Append(field, c), record, records)
             ELSE IF c = DQ
                  THEN CsvRead(rest, TRUE, field, record, records)
                  ELSE IF c = Comma
                  THEN CsvRead(rest, FALSE, <<>>, Append(record, field), records)
                  ELSE IF c = LF
                  THEN CsvRead(rest, FALSE, <<>>, <<>>,
                               Append(records, Append(record, field)))
                  ELSE CsvRead(rest, FALSE, Append(field, c), record, records)

\* the number of double quotes of a string
RECURSIVE Quotes(_)
Quotes(str) ==
    IF str = <<>> THEN 0
    ELSE (IF Head(str) = DQ THEN 1 ELSE 0) + Quotes(Tail(str))

RECURSIVE FieldChars(_)
FieldChars(data) ==
    IF data = <<>> THEN 0
    ELSE Len(Head(data).definition) + Quotes(Head(data).definition)
            + Len(Head(data).example) + Quotes(Head(data).example)
            + FieldChars(Tail(data))

\* C26: the text generateCSV returns reads back as one header record of two
\* fields followed by one record <<definition, example>> per entry, in input
\* order; it ends with a newline, and beyond the header it holds nothing but
\* the fields with each quote doubled and 6 characters per record (four
\* quotes, a comma, a newline).
C26_CsvFormat ==
    (pc = "csv" /\ calls = 1) =>
        LET read == CsvRead(csv, FALSE, <<>>, <<>>, <<>>)
        IN  /\ Len(read) = 1 + Len(inputData)
            /\ Len(read[1]) = 2
            /\ read[1][1] = <<"Goethe Zertifikat B1 Wortliste">>
            /\ \A k \in 1..Len(inputData) :
                  read[k + 1] = <<inputData[k].definition, inputData[k].example>>
            /\ csv[Len(csv)] = LF
            /\ Len(csv) = Len(csvHeader(gitVersion)) + 6 * Len(inputData)
                            + FieldChars(inputData)

\* two entries with quotes, a comma and a newline inside their fields
C26_Witness ==
    /\ pc = "csv" /\ calls = 1
    /\ Len(inputData) = 2
    /\ inputData[1].definition = <<"test ", DQ, "quoted", DQ>>
    /\ inputData[1].example = <<"test", LF, "multiline">>
    /\ inputData[2].definition = <<"a", Comma, "b">>
    /\ inputData[2].example = <<DQ>>

\* ================================================================ claim C27
\* C27: the returned ranges tile the buffer from row 0: a non-empty list
\* starts at 0, every later range starts at the end of the range before it,
\* and the last range ends at the height unless the machine ended in TRAIL.
C27_RangesTile ==
    pc = "done" =>
        /\ ranges # <<>> => ranges[1][1] = 0
        /\ \A i \in DOMAIN ranges : i > 1 => ranges[i][1] = ranges[i - 1][2]
        /\ state # "trail" =>
              ranges # <<>> /\ ranges[Len(ranges)][2] = height

\* two blocks, and the machine ended in TRAIL: the last range ends before
\* the end of the buffer
C27_Witness ==
    /\ pc = "done" /\ state = "trail"
    /\ Len(ranges) = 2
    /\ ranges[2][1] = ranges[1][2]
    /\ ranges[2][2] < height

\* ================================================================ claim C28
\* C28: with no overrides every returned range holds a non-empty row; a
\* buffer without a non-empty row, one of height 0 included, returns [].
C28_RangesHoldContent ==
    (pc = "done" /\ overrides = {}) =>
        /\ \A i \in DOMAIN ranges :
              \E r \in 0..(height - 1) :
                  ranges[i][1] <= r /\ r < ranges[i][2] /\ ~EmptyRow(r)
        /\ (\A r \in 0..(height - 1) : EmptyRow(r)) => ranges = <<>>

\* leading empty rows, content, a gap that closes the block, content again
C28_Witness ==
    /\ pc = "done" /\ overrides = {} /\ height >= 1
    /\ EmptyRow(0)
    /\ Len(ranges) = 2
    /\ state # "trail"

\* ================================================================ claim C29
\* C29: at an override row y, from any state, TRAIL included, and for any
\* threshold: an empty row y makes the machine emit [rectStart, y), set
\* rectStart = y and go to TRAIL; a non-empty row y leaves the machine in
\* LOOK with nothing emitted.
C29_OverrideRow ==
    [][\A before \in {"trail", "look", "found"} :
          (InLoop /\ y \in overrides /\ state = before) =>
             /\ start' = 0
             /\ IF rowIsEmpty'
                THEN /\ ranges' = Append(ranges, <<rectStart, y>>)
                     /\ rectStart' = y
                     /\ state' = "trail"
                ELSE /\ state' = "look"
                     /\ UNCHANGED <<ranges, rectStart>>]_vars

\* the machine was in TRAIL after a first closure when it met an empty
\* override row, and closed a block of empty rows there
C29_Witness ==
    /\ pc = "done"
    /\ Len(ranges) >= 2
    /\ ranges[2][2] \in overrides
    /\ \A r \in ranges[2][1]..ranges[2][2] : EmptyRow(r)

\* ================================================================ claim C30
\* C30 as stated: the ranges that processColumn reads from a ranges file are
\* the ranges that detectBreaks returned for the column when the file was
\* written.
C30_RangesRoundTrip ==
    pc = "pipe" =>
        \A p \in Pages :
            jobPc[p] = "extract" =>
                jobRanges[p] = DetectColumn(p, jobCol[p], threshold)

\* ================================================================ claim C31
\* C31: in every state of the concurrent run, whatever the interleaving of the
\* page jobs and wherever the run stops, a key whose records file exists has
\* its ranges file.
C31_RecordsImplyRanges ==
    pc = "pipe" =>
        \A k \in Keys : fileExists(dataFile[k]) => fileExists(rangesFile[k])

\* two page jobs are inside processColumn at once; one has written the
\* records of its left column and the ranges of its right column, the other
\* has written only the ranges of its left column
C31_Witness ==
    /\ pc = "pipe"
    /\ jobPc[PAGE_START] = "extract" /\ jobCol[PAGE_START] = "l"
    /\ fileExists(rangesFile[<<PAGE_START, "l">>])
    /\ ~fileExists(dataFile[<<PAGE_START, "l">>])
    /\ jobPc[PAGE_END] = "extract" /\ jobCol[PAGE_END] = "r"
    /\ fileExists(dataFile[<<PAGE_END, "l">>])
    /\ fileExists(rangesFile[<<PAGE_END, "r">>])
    /\ ~fileExists(dataFile[<<PAGE_END, "r">>])

\* ================================================================ claim C32
\* C32: the aggregation of processAll starts only after every page job has
\* settled; while a record file is read and merged no page job is pending,
\* running or writing.
C32_AggregatesAfterJobs ==
    /\ [](pc = "pipe" /\ mainPc \in {"aggregate", "aggregateRejected", "done"}
             => \A p \in Pages : jobPc[p] = "removed")
    /\ [][pc = "pipe" /\ (allRawData' # allRawData \/ aggIdx' # aggIdx)
             => \A p \in Pages : jobPc[p] = "removed" /\ jobPc'[p] = "removed"]_vars

\* two jobs ran at once and settled out of page order; the aggregator has
\* merged the record files of the first page
C32_Witness ==
    /\ pc = "pipe"
    /\ cpuCount = 2
    /\ outOfOrder
    /\ mainPc = "aggregate"
    /\ aggIdx = 2
    /\ allRawData # <<>>

\* ============================== Spec: processAll merging inside the page jobs
\* iteratorFn of index.js: processPage has resolved, the job goes on to
\* `await fileExists(leftFile)`
JobFinishInline(p) ==
    /\ MainSuspended
    /\ jobPc[p] = "annot"
    /\ \E outputsOk \in BOOLEAN :
          IF outputsOk
          THEN /\ jobPc' = [jobPc EXCEPT ![p] = "mergeLeft"]
               /\ UNCHANGED <<jobResult, jobError>>
          ELSE Throw(p, "generateOutputs")
    /\ UNCHANGED <<jobCol, jobRanges, outOfOrder, executing, errorLog>>
    /\ MainFrame /\ JobFrame /\ UNCHANGED <<fileVars, traceVars>>

\* the shared list after the job has read one record file: JSON.parse and
\* processRawData run in one turn, on the value allRawData has at that turn
MergeInline(p, k, after) ==
    /\ IF ParseFails(k)
       THEN Throw(p, "JSON.parse") /\ UNCHANGED <<allRawData, outOfOrder>>
       ELSE /\ allRawData' = MergeFile(k, allRawData)
            /\ jobPc' = [jobPc EXCEPT ![p] = after]
            /\ jobResult' = [jobResult EXCEPT ![p] =
                                IF after = "settled" THEN "succeeded" ELSE @]
            /\ outOfOrder' = (outOfOrder \/ (after = "settled" /\ SettlesEarly(p)))
            /\ UNCHANGED jobError
    /\ UNCHANGED <<jobCol, jobRanges, executing, errorLog>>
    /\ UNCHANGED <<mainPc, cpuCount, nextIdx, awaited, aggIdx>>
    /\ JobFrame /\ UNCHANGED <<fileVars, traceVars>>

\* leftFile is looked up and read, its records are merged
JobMergeLeft(p) ==
    /\ MainSuspended
    /\ jobPc[p] = "mergeLeft"
    /\ MergeInline(p, <<p, "l">>, "mergeRight")

\* rightFile is looked up and read, its records are merged; iteratorFn returns
JobMergeRight(p) ==
    /\ MainSuspended
    /\ jobPc[p] = "mergeRight"
    /\ MergeInline(p, <<p, "r">>, "settled")

\* runWithConcurrency has returned: generateCombinedOutputs(allRawData)
GenerateCombinedOutputsInline ==
    /\ mainPc = "aggregate"
    /\ mainPc' = "done"
    /\ UNCHANGED <<cpuCount, nextIdx, executing, awaited, allRawData, aggIdx, errorLog>>
    /\ UNCHANGED <<poolVars, convVars, detVars, rowVars, aggVars, jobVars, fileVars, traceVars>>

NextInline ==
    \/ Submit
    \/ RaceResume
    \/ LoopEnd
    \/ AllResume
    \/ \E p \in Pages : JobStart(p)
    \/ \E p \in Pages : JobImage(p)
    \/ \E p \in Pages : JobColumn(p)
    \/ \E p \in Pages : JobExtract(p)
    \/ \E p \in Pages : JobFinishInline(p)
    \/ \E p \in Pages : JobMergeLeft(p)
    \/ \E p \in Pages : JobMergeRight(p)
    \/ \E p \in Pages : JobCatch(p)
    \/ \E p \in Pages : JobRemove(p)
    \/ GenerateCombinedOutputsInline

SpecInline == InitPipe /\ [][NextInline]_vars

\* ================================================================ claim C33
\* the list that merging the record files page by page, left column before
\* right column, gives for the pages whose job merged both files
RECURSIVE MergedInPageOrder(_, _)
MergedInPageOrder(i, acc) ==
    IF i > NumPages THEN acc
    ELSE LET page == pageNumbers[i]
             files == AggregateFiles(page)
         IN  MergedInPageOrder(i + 1,
                 IF jobResult[page] = "succeeded"
                 THEN MergeFile(files[2], MergeFile(files[1], acc))
                 ELSE acc)

\* C33 as stated: when the variant of processAll that merges inside the page
\* jobs hands the shared list to generateCombinedOutputs, the list is the
\* merge in ascending page order, each page's left records directly followed
\* by its right records, whatever the interleaving of the jobs.
C33_InlineMergeInPageOrder ==
    pc = "pipe" /\ mainPc = "done" => allRawData = MergedInPageOrder(1, <<>>)

\* ================================================================ claim C34
\* C34: a call of processRawData on the empty buffer whose first record has an
\* empty definition makes that record the first entry of the buffer (it is not
\* dropped); in every buffer built from the empty buffer by calls of
\* processRawData only the entry at index 0 can have an empty definition.
C34_EmptyDefinitionOnlyFirst ==
    /\ [](pc = "agg" =>
             \A i \in 2..Len(buf) : buf[i].definition # EmptyString)
    /\ [][(/\ pc = "agg" /\ buf = <<>>
           /\ inputData' # <<>> /\ inputData'[1].definition = EmptyString)
          => /\ buf' # <<>>
             /\ buf'[1].definition = EmptyString
             /\ SubSeq(buf'[1].example, 1, Len(inputData'[1].example))
                    = inputData'[1].example]_vars

\* the buffer starts with an entry without definition, a later call merged a
\* continuation into it and appended an entry after it
C34_Witness ==
    /\ pc = "agg" /\ calls = 2
    /\ Len(buf) >= 2
    /\ buf[1].definition = EmptyString
    /\ Len(buf[1].example) >= 3
    /\ inputData # <<>> /\ inputData[1].definition = EmptyString

\* ====================================== Spec: the aggregation of processAll
MaxRecords == 1

\* the raw records a column's records file can hold: the text found in a
\* region starts a new entry or, without definition, continues the last one
PersistedRecord(k, i) ==
    { [index |-> i - 1,
       definition |-> d,
       example |-> <<"ex", ToString(k[1]), k[2], ToString(i)>>,
       imagePath |-> <<ToString(k[1]), k[2], ToString(i - 1)>>] :
      d \in {EmptyString, <<"def", ToString(k[1]), k[2], ToString(i)>>} }
PersistedLists(k) ==
    UNION { { rl \in [1..n -> UNION { PersistedRecord(k, i) : i \in 1..n }] :
                \A i \in 1..n : rl[i] \in PersistedRecord(k, i) } :
            n \in 0..MaxRecords }

\* processAll after the page jobs, over records files left by earlier runs
InitAggregate ==
    /\ pixelBuffer = <<>>
    /\ width = 1 /\ height = 0 /\ channels = 3
    /\ threshold = PipeThreshold
    /\ overrides = {}
    /\ y = 0
    /\ state = InitMachine.state
    /\ start = InitMachine.start
    /\ rectStart = InitMachine.rectStart
    /\ ranges = InitMachine.ranges
    /\ pc = "aggregate"
    /\ IdleRow
    /\ IdleAgg
    /\ IdlePool
    /\ IdleConvert
    /\ mainPc = "aggregate"
    /\ cpuCount = 1
    /\ nextIdx = NumPages + 1
    /\ executing = <<>>
    /\ awaited = {}
    /\ allRawData = <<>>
    /\ aggIdx = 1
    /\ errorLog = <<>>
    /\ jobPc = [p \in Pages |-> "removed"]
    /\ jobCol = [p \in Pages |-> "r"]
    /\ jobRanges = [p \in Pages |-> <<>>]
    /\ jobResult = [p \in Pages |-> "succeeded"]
    /\ jobError = [p \in Pages |-> "none"]
    /\ outOfOrder = FALSE
    /\ rangesFile = [k \in Keys |-> CachedRanges(k[1], k[2], "full", PipeThreshold)]
    /\ dataFile \in [Keys -> UNION { { File(JsonStringify(rl)) : rl \in PersistedLists(k) } :
                                      k \in Keys }]
    /\ \A k \in Keys : JsonParse(dataFile[k].text) \in PersistedLists(k)
    /\ detectCalls = {}
    /\ extractCalls = {}
    /\ returned = [k \in Keys |-> NotReturned]
    /\ written = {}
    /\ tracing = FALSE
    /\ cacheState = <<>>

NextAggregate ==
    \/ AggregatePage
    \/ GenerateCombinedOutputs

SpecAggregate == InitAggregate /\ [][NextAggregate]_vars

\* processPage, lines 58-61: the merged list of one page, built from the
\* data that processColumn returns for stored records files
pageRawData(page) ==
    LET leftData == JsonParse(dataFile[<<page, "l">>].text)
        rightData == JsonParse(dataFile[<<page, "r">>].text)
    IN  processRawData(rightData, processRawData(leftData, <<>>))

\* ================================================================ claim C35
RECURSIVE PageListsConcatenated(_)
PageListsConcatenated(i) ==
    IF i > NumPages THEN <<>>
    ELSE pageRawData(pageNumbers[i]) \o PageListsConcatenated(i + 1)

\* C35 as stated: for every set of persisted column records, the list the
\* aggregation of the full run hands on is the concatenation, in ascending
\* page order, of the lists processPage merges for each page from the same
\* records.
C35_FullRunIsConcatenation ==
    pc = "aggregate" /\ mainPc = "done" =>
        allRawData = PageListsConcatenated(1)

\* ================================================================ claim C36
\* the Worker objects whose thread runs
LiveWorkers == {w \in WorkerIds : Alive(w)}

C37_NoWorkerAfterDestroy ==
    pc = "pool" /\ destroyPc = "done" => LiveWorkers = {}

\* ================================================================ claim C38
\* ready() returns _readyPromise, the Promise.all of the promises of the
\* workers created by _spawnWorkers
ReadyResolved == \A w \in 1..size : w \in onlineResolved

\* C38 as stated: whenever `size` workers of the pool are online, ready()
\* resolves, also when a worker failed before it came online and its
\* replacement is among the workers online.
C38_ReadyResolves ==
    (pc = "pool" /\ Cardinality({w \in WorkerIds : thread[w] = "online"}) = size)
        ~> ReadyResolved

\* ================================= Spec: the round-robin WorkerPool
MaxExecs == 3
\* the exec calls, in the order they are made
Execs == 1..MaxExecs

\* the message a worker posts for the payload of job j
ReplyTo(j) == "reply" \o ToString(j)
Replies == {ReplyTo(j) : j \in Execs}

\* AbortSignal.timeout(30_000)
SafetyTimeoutMs == 30000

RoundRobinFrame ==
    /\ UNCHANGED <<idleWorkers, queue, isClosing, currentTask, posted, nextWorker,
                   dispatched, replacing, destroyPc, onlineResolved>>
    /\ PoolFrame

\* new WorkerPool(url, size): _spawnWorkers has filled _workers
InitRoundRobin ==
    /\ pixelBuffer = <<>>
    /\ width = 1 /\ height = 0 /\ channels = 3
    /\ threshold = 0
    /\ overrides = {}
    /\ y = 0
    /\ state = InitMachine.state
    /\ start = InitMachine.start
    /\ rectStart = InitMachine.rectStart
    /\ ranges = InitMachine.ranges
    /\ pc = "roundRobin"
    /\ IdleRow
    /\ IdleAgg
    /\ IdlePipe
    /\ IdleConvert
    /\ size \in 1..MaxSize
    /\ workers = [i \in 1..size |-> i]
    /\ idleWorkers = <<>> /\ queue = <<>>
    /\ isClosing = FALSE
    /\ thread = [w \in WorkerIds |-> IF w <= size THEN "online" ELSE "none"]
    /\ currentTask = <<>> /\ posted = <<>>
    /\ nextWorker = 1
    /\ timer = [j \in Execs |-> NoTimer]
    /\ promise = [j \in Execs |-> "none"]
    /\ nextJob = 1
    /\ dispatched = <<>>
    /\ replacing = 0 /\ destroyPc = "none" /\ faults = 0
    /\ onlineResolved = {}
    /\ nextIndex = 0
    /\ msgListeners = [w \in 1..size |-> <<>>]
    /\ errListeners = [w \in 1..size |-> <<>>]
    /\ inbox = [w \in 1..size |-> <<>>]
    /\ abortHasClear \in BOOLEAN
    /\ crashed = FALSE

\* exec(job): the next worker in turn gets the two listeners and the payload
RoundRobinExec ==
    /\ pc = "roundRobin" /\ ~crashed
    /\ nextJob <= MaxExecs
    /\ LET worker == workers[nextIndex + 1]
       IN  /\ nextIndex' = (nextIndex + 1) % size
           /\ promise' = [promise EXCEPT ![nextJob] = "pending"]
           /\ timer' = [timer EXCEPT ![nextJob] =
                            [worker |-> worker, ms |-> SafetyTimeoutMs]]
           /\ msgListeners' = [msgListeners EXCEPT ![worker] = Append(@, nextJob)]
           /\ errListeners' = [errListeners EXCEPT ![worker] = Append(@, nextJob)]
           /\ inbox' = IF thread[worker] = "online"
                       THEN [inbox EXCEPT ![worker] = Append(@, nextJob)]
                       ELSE inbox
    /\ nextJob' = nextJob + 1
    /\ UNCHANGED <<size, workers, thread, faults, abortHasClear, crashed>>
    /\ RoundRobinFrame

\* the listeners `listening` of one event run in the order they were set:
\* each calls abort.clear() and settles its own promise with `how`; without a
\* clear() method the first listener throws and the others are not called
RunListeners(listening, how) ==
    IF listening = <<>>
    THEN UNCHANGED <<promise, timer, crashed>>
    ELSE IF abortHasClear
    THEN /\ promise' = [j \in Execs |->
                          IF j \in SeqRange(listening)
                          THEN Settle(promise, j, how)[j] ELSE promise[j]]
         /\ timer' = [j \in Execs |->
                        IF j \in SeqRange(listening) THEN NoTimer ELSE timer[j]]
         /\ UNCHANGED crashed
    ELSE /\ crashed' = TRUE
         /\ UNCHANGED <<promise, timer>>

\* the once-listeners left after the event
AfterEvent(listening) ==
    IF listening = <<>> \/ abortHasClear THEN <<>> ELSE Tail(listening)

\* the worker answers the oldest payload posted to it: the 'message' event
RoundRobinMessage(w) ==
    /\ pc = "roundRobin" /\ ~crashed
    /\ w \in 1..size
    /\ thread[w] = "online"
    /\ inbox[w] # <<>>
    /\ inbox' = [inbox EXCEPT ![w] = Tail(@)]
    /\ RunListeners(msgListeners[w], reviver(ReplyTo(Head(inbox[w]))))
    /\ msgListeners' = [msgListeners EXCEPT ![w] = AfterEvent(@)]
    /\ UNCHANGED <<size, workers, thread, nextJob, nextIndex, errListeners,
                   faults, abortHasClear>>
    /\ RoundRobinFrame

\* an exception leaves the worker's code: its thread ends and the 'error'
\* event is emitted; an 'error' event without listener is thrown
RoundRobinError(w) ==
    /\ pc = "roundRobin" /\ ~crashed
    /\ w \in 1..size
    /\ thread[w] = "online"
    /\ faults < MaxFaults
    /\ faults' = faults + 1
    /\ thread' = [thread EXCEPT ![w] = "errored"]
    /\ IF errListeners[w] = <<>>
       THEN crashed' = TRUE /\ UNCHANGED <<promise, timer>>
       ELSE RunListeners(errListeners[w], "error")
    /\ errListeners' = [errListeners EXCEPT ![w] = AfterEvent(@)]
    /\ UNCHANGED <<size, workers, nextJob, nextIndex, msgListeners, inbox,
                   abortHasClear>>
    /\ RoundRobinFrame

\* the safety timeout of job j fires: the worker is terminated, then the
\* promise is rejected
RoundRobinAbort(j) ==
    /\ pc = "roundRobin" /\ ~crashed
    /\ timer[j] # NoTimer
    /\ thread' = [thread EXCEPT ![timer[j].worker] =
                     IF @ = "online" THEN "terminated" ELSE @]
    /\ promise' = Settle(promise, j, "timeout")
    /\ timer' = [timer EXCEPT ![j] = NoTimer]
    /\ UNCHANGED <<size, workers, nextJob, nextIndex, msgListeners,
                   errListeners, inbox, faults, abortHasClear, crashed>>
    /\ RoundRobinFrame

NextRoundRobin ==
    \/ RoundRobinExec
    \/ \E w \in WorkerIds : RoundRobinMessage(w)
    \/ \E w \in WorkerIds : RoundRobinError(w)
    \/ \E j \in Execs : RoundRobinAbort(j)

SpecRoundRobin == InitRoundRobin /\ [][NextRoundRobin]_vars

C40_EveryItemCalledAndSettled ==
    (pc = "convert" /\ convPc \in {"resolved", "rejected"}) =>
        \A item \in SeqRange(todo) :
            renderPc[item] \in {"settled", "removed", "rejected"}
====
